---- MODULE Spec2Model ----
(***************************************************************************)
(* Rule evaluation and incident lifecycle engine of the OVD watchdog       *)
(* (src/src/core/rules/rule_engine.py), driven frame by frame the way the   *)
(* pipeline's main loop drives it (src/main_new23_02.py).                   *)
(*                                                                         *)
(* Time.  The main loop computes timestamp = frame_id / fps, so every       *)
(* timestamp of a run is a frame count over fps.  The model writes a        *)
(* timestamp as that frame count ("ticks" of 1/fps seconds); a duration of  *)
(* a rule (dwell_seconds, cooldown_seconds) is written in the same unit.    *)
(* The engine computes with IEEE-754 doubles: FloatElapsedGE gives the      *)
(* outcome of the double computation, which differs from the exact one     *)
(* only where the exact difference equals the threshold.                    *)
(*                                                                         *)
(* Confidences are written in hundredths (0.9 is 90).                       *)
(***************************************************************************)
EXTENDS Integers, Sequences, FiniteSets, TLC

VARIABLES
    rules,                      \* RuleEngine.rules: the list given to __init__
    fps,                        \* video_source.fps of the run
    frame_id,                   \* the main loop's frame counter
    heap,                       \* every Incident object created so far
    incidents,                  \* RuleEngine.incidents: dict id -> Incident, in insertion order
    active_incidents_by_track,  \* RuleEngine.active_incidents_by_track
    track_rule_timers,          \* RuleEngine.track_rule_timers: (track, rule) -> first timestamp
    track_rule_frames,          \* RuleEngine.track_rule_frames: (track, rule) -> [frame ids]
    helmet_history,             \* RuleEngine._helmet_history: track id -> raw labels
    returned,                   \* the list the last evaluate call returned (heap references)
    matched,                    \* history: the (track, rule) pairs that matched in that call
    last_call,                  \* history: the last call made on the engine, with its arguments
    window_first,               \* history: (track, rule) -> first matching frame since the
                                \* pair's last evaluated miss (0: none)
    max_frames,                 \* VideoRingBuffer.max_frames, the maxlen of its deque
    max_memory_mb,              \* VideoRingBuffer.max_memory_mb
    estimated_frame_size_mb,    \* VideoRingBuffer.estimated_frame_size_mb, kept in bytes
    buffer,                     \* VideoRingBuffer.buffer: (frame, timestamp, frame_id) entries
    source,                     \* the video source of the run: the frames it delivers
    inserted,                   \* history: every entry add_frame was given, in order
    io,                         \* history: the last call on the ring buffer, with its outcome
    recorded_incidents,         \* main: the ids of the incidents already recorded and notified
    evidence,                   \* history: one record per record_incident call of the loop
    notifiers,                  \* NotificationManager.notifiers: the loaded adapters
    dispatch,                   \* history: the last notify call: its sends and its result
    pc,                         \* where main is: loading the rule, in the loop, in a send
    adapters,                   \* per adapter: enabled, rate_limit_seconds, last_notification_time
    wall_clock,                 \* time.time(), in seconds
    delivered                   \* history: every delivery an adapter performed, with its time

vars == <<rules, fps, frame_id, heap, incidents, active_incidents_by_track,
          track_rule_timers, track_rule_frames, helmet_history, returned,
          matched, last_call, window_first, max_frames, max_memory_mb,
          estimated_frame_size_mb, buffer, source, inserted, io,
          recorded_incidents, evidence, notifiers, dispatch,
          pc, adapters, wall_clock, delivered>>

\* the variables of the rule engine and of the loop that drives it
engine_vars == <<rules, fps, frame_id, heap, incidents, active_incidents_by_track,
                 track_rule_timers, track_rule_frames, helmet_history, returned,
                 matched, last_call, window_first>>

\* the position of main and the state of the channel adapters
adapter_vars == <<pc, adapters, wall_clock, delivered>>

\* the variables of the ring buffer, the recorder and the notification manager
pipeline_vars == <<max_frames, max_memory_mb, estimated_frame_size_mb, buffer,
                   source, inserted, io, recorded_incidents, evidence,
                   notifiers, dispatch, pc, adapters, wall_clock, delivered>>

\* Python's Optional: None is the empty tuple, a present value v is <<v>>
None == <<>>

Some(v) == <<v>>

Val(o) == o[1]

(***************************************************************************)
(* Bounds of the model.                                                    *)
(***************************************************************************)
MaxFrame == 4
MaxCalls == 2
MaxFrameC5 == 64
MaxInsert == 6
MaxInsertC11 == 301
MaxInsertC12 == 20
MaxChannels == 3
MaxMainFrame == 4
MaxClock == 3
MaxCoord == 1
MaxFrameHelmet == 6
MaxDeliveries == 3

(***************************************************************************)
(* Python helpers.                                                         *)
(***************************************************************************)
Put(d, k, v) == [x \in DOMAIN d \cup {k} |-> IF x = k THEN v ELSE d[x]]

Pop(d, k) == [x \in DOMAIN d \ {k} |-> d[x]]

EmptyDict == [x \in {} |-> None]

Range(s) == {s[i] : i \in DOMAIN s}

\* main: timestamp = frame_id / video_source.fps, written in ticks of 1/fps s
Timestamp(f) == f

\* int(timestamp): truncation of frame/fps
IntOf(ts, rate) == ts \div rate


(***************************************************************************)
(* IEEE-754 double arithmetic of the dwell and cooldown comparisons.       *)
(* elapsed = now/fps - first/fps is compared with a threshold thr/fps.     *)
(* Each quotient is rounded to a double, so when now - first = thr exactly *)
(* the computed difference may fall one ulp below the threshold.           *)
(* RoundsBelow(rate, thr) lists the window starts `first` (up to 101) for  *)
(* which it does, tabulated from binary64 arithmetic for the frame rates   *)
(* and thresholds the specifications use; at fps 2 every timestamp is a    *)
(* dyadic rational and the arithmetic is exact.  When now - first # thr    *)
(* the error (about 1e-16) cannot change the outcome.                      *)
(***************************************************************************)
RoundsBelow(rate, thr) ==
    IF rate = 30 /\ thr = 60
    THEN {1, 5, 9, 13, 24, 28, 31, 35, 39, 43, 46, 50, 54, 58, 62, 63, 70, 71,
          77, 78, 85, 86, 92, 93, 100, 101}
    ELSE {}

\* faulty variant: exact arithmetic
FloatElapsedGE_Exact(now, first, thr, rate) == now - first >= thr

FloatElapsedGE(now, first, thr, rate) ==
    IF now - first = thr
    THEN first \notin RoundsBelow(rate, thr)
    ELSE now - first > thr

(***************************************************************************)
(* ROI (src/src/models/rule.py).  A point is a pair <<x, y>>.  The centre  *)
(* of a box has half-integer coordinates, so ROI tests take the point and  *)
(* the ROI's points in doubled coordinates: contains_bbox doubles both.    *)
(***************************************************************************)
Min2(a, b) == IF a <= b THEN a ELSE b

Max2(a, b) == IF a >= b THEN a ELSE b

\* x <= xinters, with xinters = (y - p1y) * (p2x - p1x) / (p2y - p1y) + p1x
\* and p1y # p2y, decided without the division
LeXinters(pt, p1, p2) ==
    LET d == p2[2] - p1[2]
        lhs == (pt[1] - p1[1]) * d
        rhs == (pt[2] - p1[2]) * (p2[1] - p1[1])
    IN  IF d > 0 THEN lhs <= rhs ELSE lhs >= rhs

\* faulty variant: a point level with the lower end of an edge passes
above_lower_OrOn(pt, p1, p2) == pt[2] >= Min2(p1[2], p2[2])

\* y > min(p1y, p2y)
above_lower(pt, p1, p2) == pt[2] > Min2(p1[2], p2[2])

\* the three tests an edge passes before line 53 looks at its y-coordinates
reaches_xinters(pt, p1, p2) ==
    /\ above_lower(pt, p1, p2)
    /\ pt[2] <= Max2(p1[2], p2[2])
    /\ pt[1] <= Max2(p1[1], p2[1])

RECURSIVE PolygonScan(_, _, _, _, _)
\* the loop "for i in range(n + 1)" of _point_in_polygon from index i on
PolygonScan(pt, polygon, i, p1, inside) ==
    IF i > Len(polygon)
    THEN inside
    ELSE LET n == Len(polygon)
             p2 == polygon[(i % n) + 1]
             crosses ==
                 /\ reaches_xinters(pt, p1, p2)
                 /\ (p1[1] = p2[1] \/ LeXinters(pt, p1, p2))
         IN  PolygonScan(pt, polygon, i + 1, p2,
                         IF crosses THEN ~inside ELSE inside)

\* the edge the loop looks at in its pass i: from p1 (the p2 of the pass
\* before, polygon[0] in pass 0) to p2 = polygon[i % n]
EdgeOfPass(polygon, i) ==
    <<IF i = 0 THEN polygon[1] ELSE polygon[((i - 1) % Len(polygon)) + 1],
      polygon[(i % Len(polygon)) + 1]>>

\* some pass reads xinters at line 55 without having assigned it at line 54:
\* the value read is that of an earlier edge, or the name is unbound
reads_stale_xinters(pt, polygon) ==
    \E i \in 0..Len(polygon) :
        LET p1 == EdgeOfPass(polygon, i)[1]
            p2 == EdgeOfPass(polygon, i)[2]
        IN  /\ reaches_xinters(pt, p1, p2)
            /\ p1[2] = p2[2]
            /\ p1[1] # p2[1]

point_in_polygon(pt, polygon) == PolygonScan(pt, polygon, 0, polygon[1], FALSE)

contains_point(roi, pt) ==
    IF ~roi.enabled THEN TRUE
    ELSE IF roi.roi_type = "polygon" THEN point_in_polygon(pt, roi.points)
    ELSE IF roi.roi_type = "rectangle"
         THEN /\ roi.points[1][1] <= pt[1] /\ pt[1] <= roi.points[2][1]
              /\ roi.points[1][2] <= pt[2] /\ pt[2] <= roi.points[2][2]
    ELSE TRUE

Doubled(points) == [i \in DOMAIN points |-> <<2 * points[i][1], 2 * points[i][2]>>]

\* faulty variant: the box's top-left corner is tested, not its centre
contains_bbox_Corner(roi, bbox) == contains_point(roi, <<bbox[1], bbox[2]>>)

\* bbox = <<x1, y1, x2, y2>>; the centre ((x1+x2)/2, (y1+y2)/2) in doubled coordinates
contains_bbox(roi, bbox) ==
    contains_point([roi EXCEPT !.points = Doubled(roi.points)],
                   <<bbox[1] + bbox[3], bbox[2] + bbox[4]>>)

(***************************************************************************)
(* Rule matcher (RuleEngine._track_matches_rule).  A prompt is a sequence  *)
(* of characters; "a in b" on Python strings is the substring test.        *)
(***************************************************************************)
IsSubstring(a, b) ==
    \E i \in 0..(Len(b) - Len(a)) : SubSeq(b, i + 1, i + Len(a)) = a

MatcherStates == {"confirmed", "helmeted", "helmetless", "unknown"}

\* faulty variant: a confidence equal to the minimum is rejected
track_matches_rule_Strict(track, rule) ==
    IF track.state \notin MatcherStates THEN FALSE
    ELSE IF track.detection_history = <<>> THEN FALSE
    ELSE LET latest_detection == track.detection_history[Len(track.detection_history)]
         IN  IF latest_detection.confidence <= rule.conditions.min_confidence THEN FALSE
             ELSE IF rule.conditions.require_helmetless /\ track.state # "helmetless"
                  THEN FALSE
             ELSE IF rule.roi # None /\ Val(rule.roi).enabled
                     /\ ~contains_bbox(Val(rule.roi), track.bbox)
                  THEN FALSE
             ELSE IF latest_detection.prompt_used # <<>>
                     /\ ~IsSubstring(rule.prompt_positive, latest_detection.prompt_used)
                  THEN FALSE
             ELSE TRUE

track_matches_rule(track, rule) ==
    IF track.state \notin MatcherStates THEN FALSE
    ELSE IF track.detection_history = <<>> THEN FALSE
    ELSE LET latest_detection == track.detection_history[Len(track.detection_history)]
         IN  IF latest_detection.confidence < rule.conditions.min_confidence THEN FALSE
             ELSE IF rule.conditions.require_helmetless /\ track.state # "helmetless"
                  THEN FALSE
             ELSE IF rule.roi # None /\ Val(rule.roi).enabled
                     /\ ~contains_bbox(Val(rule.roi), track.bbox)
                  THEN FALSE
             ELSE IF latest_detection.prompt_used # <<>>
                     /\ ~IsSubstring(rule.prompt_positive, latest_detection.prompt_used)
                  THEN FALSE
             ELSE TRUE

(***************************************************************************)
(* Classification enrichment (RuleEngine.infer_helmet_status and its       *)
(* helpers).  A box is <<x1, y1, x2, y2>> in integers; the model's person  *)
(* boxes have a height that is a multiple of 5, so the head region (top    *)
(* 40%) has integer corners.                                               *)
(***************************************************************************)
SmoothFrames == 5

HeadRatioPct == 40

IouThresholdPct == 15

MinHelmetConf == 28

MinTemporalConfPct == 60

\* class_name.lower() for the class names of the model
Lower(c) == IF c = "Person" THEN "person" ELSE c

IsPersonClass(c) == Lower(c) \in {"person", "worker", "human"}

\* any(word in class_name.lower() for word in {"helmet", "hard hat", ...})
HasHelmetWord(c) == Lower(c) \in {"helmet", "hard hat", "safety helmet", "hardhat",
                                  "hat", "yellow helmet"}

get_head_region(bbox) ==
    <<bbox[1], bbox[2], bbox[3], bbox[2] + ((bbox[4] - bbox[2]) * HeadRatioPct) \div 100>>

InterArea(boxA, boxB) ==
    Max2(0, Min2(boxA[3], boxB[3]) - Max2(boxA[1], boxB[1]))
        * Max2(0, Min2(boxA[4], boxB[4]) - Max2(boxA[2], boxB[2]))

BoxArea(b) == (b[3] - b[1]) * (b[4] - b[2])

\* _compute_iou(boxA, boxB) >= pct/100, with iou = inter / (union + 1e-6):
\* the 1e-6 makes inter / union = pct/100 exactly fall below the threshold
IouAtLeast(boxA, boxB, pct) ==
    LET inter == InterArea(boxA, boxB)
    IN  100 * inter > pct * (BoxArea(boxA) + BoxArea(boxB) - inter)

Count(seq, v) == Cardinality({i \in DOMAIN seq : seq[i] = v})

\* faulty variant: the label of the current frame, unsmoothed
MostCommon_Last(seq) == seq[Len(seq)]

\* Counter(seq).most_common(1)[0][0]: the most frequent label, the one met
\* first among equally frequent ones
MostCommon(seq) ==
    LET best == CHOOSE i \in DOMAIN seq :
                    /\ \A j \in DOMAIN seq : Count(seq, seq[j]) <= Count(seq, seq[i])
                    /\ \A j \in 1..(i - 1) : Count(seq, seq[j]) < Count(seq, seq[i])
    IN  seq[best]

\* the body of "for person in persons" for one track; other tracks pass unchanged
InferOne(track, tracks, hist) ==
    IF ~IsPersonClass(track.class_name) \/ track.state = "lost"
    THEN [track |-> track, hist |-> hist]
    ELSE LET head_box == get_head_region(track.bbox)
             helmeted == \E i \in DOMAIN tracks :
                             /\ HasHelmetWord(tracks[i].class_name)
                             /\ tracks[i].confidence >= MinHelmetConf
                             /\ IouAtLeast(head_box, tracks[i].bbox, IouThresholdPct)
             raw_status == IF helmeted THEN "helmeted" ELSE "helmetless"
             tid == track.track_id
             old == IF tid \in DOMAIN hist THEN hist[tid] ELSE <<>>
             app == Append(old, raw_status)
             new == IF Len(app) > SmoothFrames THEN Tail(app) ELSE app
             top == MostCommon(new)
             st == IF 100 * Count(new, top) >= MinTemporalConfPct * Len(new)
                   THEN top ELSE "unknown"
         IN  [track |-> [track EXCEPT !.state = st], hist |-> Put(hist, tid, new)]

RECURSIVE InferFrom(_, _, _)
\* infer_helmet_status over tracks[i..]: returns the tracks as mutated and the history
InferFrom(tracks, hist, i) ==
    IF i > Len(tracks)
    THEN [tracks |-> tracks, hist |-> hist]
    ELSE LET r == InferOne(tracks[i], tracks, hist)
         IN  InferFrom([tracks EXCEPT ![i] = r.track], r.hist, i + 1)

infer_helmet_status(tracks, hist) == InferFrom(tracks, hist, 1)

(***************************************************************************)
(* Incidents (src/src/models/rule.py, class Incident).  Incident objects   *)
(* live in `heap`; the registry `incidents` is the dict of the engine, a   *)
(* sequence of entries [id, ref] in insertion order, ref an index of heap. *)
(* An incident id f"{rule_id}_{track_id}_{int(timestamp)}" is written as   *)
(* the triple <<rule_id, track_id, int(timestamp)>>: the two numbers hold  *)
(* no underscore, so the string determines the triple and conversely.      *)
(***************************************************************************)
IncidentId(rule_id, track_id, timestamp, rate) ==
    <<rule_id, track_id, IntOf(timestamp, rate)>>

NewIncident(id, rule_id, track_id, first) ==
    [incident_id |-> id, rule_id |-> rule_id, track_id |-> track_id,
     first_detected_time |-> first, confirmed_time |-> None, resolved_time |-> None,
     state |-> "tentative", snapshots |-> <<>>, video_clip_path |-> None,
     confidence_scores |-> <<>>, frame_ids |-> <<>>,
     last_notification_time |-> None, notification_count |-> 0]

Ids(reg) == {reg[i].id : i \in DOMAIN reg}

\* position of id in the registry (id is registered)
Pos(reg, id) == CHOOSE i \in DOMAIN reg : reg[i].id = id

\* self.incidents[id] = incident: a new key goes last, an old key keeps its place
DictSet(reg, id, ref) ==
    IF id \in Ids(reg)
    THEN [reg EXCEPT ![Pos(reg, id)] = [id |-> id, ref |-> ref]]
    ELSE Append(reg, [id |-> id, ref |-> ref])

Key(track_id, rule_id) == <<track_id, rule_id>>

(***************************************************************************)
(* The engine's state as one evaluate call threads it through its loop:    *)
(* st = [heap, incidents, active, timers, frames, ret].                    *)
(***************************************************************************)
\* faulty variant: only confirmed incidents count as existing
ExistingIncidents_OnlyConfirmed(st, track_id, rule_id) ==
    SelectSeq(st.incidents,
              LAMBDA e : /\ st.heap[e.ref].track_id = track_id
                         /\ st.heap[e.ref].rule_id = rule_id
                         /\ st.heap[e.ref].state = "confirmed")

\* faulty variant: the filter on the state is forgotten
ExistingIncidents_AnyState(st, track_id, rule_id) ==
    SelectSeq(st.incidents,
              LAMBDA e : /\ st.heap[e.ref].track_id = track_id
                         /\ st.heap[e.ref].rule_id = rule_id)

\* for inc in self.incidents.values() if same track, same rule, state != "resolved"
ExistingIncidents(st, track_id, rule_id) ==
    SelectSeq(st.incidents,
              LAMBDA e : /\ st.heap[e.ref].track_id = track_id
                         /\ st.heap[e.ref].rule_id = rule_id
                         /\ st.heap[e.ref].state # "resolved")

\* faulty variant: the confirmation is stamped on every update
promote_Always(incident, timestamp) ==
    [incident EXCEPT !.confirmed_time = Some(timestamp), !.state = "confirmed"]

\* "Promote tentative -> confirmed"
promote(incident, timestamp) ==
    IF incident.state = "tentative" /\ incident.confirmed_time = None
    THEN [incident EXCEPT !.confirmed_time = Some(timestamp), !.state = "confirmed"]
    ELSE incident

create_or_update_incident(st, track, rule, timestamp, rate) ==
    LET existing_incidents == ExistingIncidents(st, track.track_id, rule.rule_id)
    IN  IF existing_incidents # <<>>
        THEN LET ref == existing_incidents[1].ref
                 incident == st.heap[ref]
                 promoted == promote(incident, timestamp)
                 updated ==
                     IF track.detection_history # <<>>
                     THEN LET latest_det ==
                                  track.detection_history[Len(track.detection_history)]
                          IN  [promoted EXCEPT
                                  !.confidence_scores = Append(@, latest_det.confidence),
                                  !.frame_ids = Append(@, latest_det.frame_id)]
                     ELSE promoted
             IN  [st EXCEPT !.heap = [@ EXCEPT ![ref] = updated],
                            !.ret = Append(@, ref)]
        ELSE LET incident_id == IncidentId(rule.rule_id, track.track_id, timestamp, rate)
                 incident == NewIncident(incident_id, rule.rule_id, track.track_id,
                                         st.timers[Key(track.track_id, rule.rule_id)])
                 ref == Len(st.heap) + 1
                 old == IF track.track_id \in DOMAIN st.active
                        THEN st.active[track.track_id] ELSE <<>>
             IN  [st EXCEPT !.heap = Append(@, incident),
                            !.incidents = DictSet(@, incident_id, ref),
                            !.active = Put(@, track.track_id, Append(old, incident_id)),
                            !.ret = Append(@, ref)]

\* faulty variant: elapsed > dwell_seconds
dwell_met_Strict(timestamp, first, rule, rate) ==
    timestamp - first > rule.conditions.dwell_seconds

\* elapsed = timestamp - first; dwell_met = elapsed >= rule.conditions.dwell_seconds
dwell_met(timestamp, first, rule, rate) ==
    FloatElapsedGE(timestamp, first, rule.conditions.dwell_seconds, rate)

frames_met(num_frames, rule) == num_frames >= rule.conditions.min_frames

check_dwell_time(st, track, rule, frame, timestamp, rate) ==
    LET key == Key(track.track_id, rule.rule_id)
    IN  IF key \notin DOMAIN st.timers
        THEN [st EXCEPT !.timers = Put(@, key, timestamp),
                        !.frames = Put(@, key, <<frame>>)]
        ELSE LET old == IF key \in DOMAIN st.frames THEN st.frames[key] ELSE <<>>
                 st1 == [st EXCEPT !.frames = Put(@, key, Append(old, frame))]
                 num_frames == Len(st1.frames[key])
             IN  IF dwell_met(timestamp, st.timers[key], rule, rate)
                    /\ frames_met(num_frames, rule)
                 THEN create_or_update_incident(st1, track, rule, timestamp, rate)
                 ELSE st1

\* faulty variant: the timer is kept
reset_timer_Keep(st, track_id, rule_id) == st

reset_timer(st, track_id, rule_id) ==
    [st EXCEPT !.timers = Pop(@, Key(track_id, rule_id)),
               !.frames = Pop(@, Key(track_id, rule_id))]

\* one iteration of "for rule in self.rules: for track in tracks"
EvalPair(st, track, rule, frame, timestamp, rate) ==
    IF track_matches_rule(track, rule)
    THEN check_dwell_time(st, track, rule, frame, timestamp, rate)
    ELSE reset_timer(st, track.track_id, rule.rule_id)

RECURSIVE EvalLoop(_, _, _, _, _, _, _)
\* the double loop from its k-th iteration on (rules outer, tracks inner)
EvalLoop(st, rs, tracks, k, frame, timestamp, rate) ==
    IF k > Len(rs) * Len(tracks)
    THEN st
    ELSE LET rule == rs[((k - 1) \div Len(tracks)) + 1]
             track == tracks[((k - 1) % Len(tracks)) + 1]
         IN  EvalLoop(EvalPair(st, track, rule, frame, timestamp, rate),
                      rs, tracks, k + 1, frame, timestamp, rate)

\* faulty variant: confirmed incidents are closed at the end of the call
cleanup_resolved_incidents_Expire(st, timestamp) ==
    [st EXCEPT !.heap = [i \in DOMAIN @ |->
        IF @[i].state = "confirmed"
        THEN [@[i] EXCEPT !.state = "resolved", !.resolved_time = Some(timestamp)]
        ELSE @[i]]]

\* _cleanup_resolved_incidents: a placeholder, it changes nothing
cleanup_resolved_incidents(st, timestamp) == st

EngineState ==
    [heap |-> heap, incidents |-> incidents, active |-> active_incidents_by_track,
     timers |-> track_rule_timers, frames |-> track_rule_frames, ret |-> <<>>]

\* evaluate(tracks, frame, timestamp) after enrichment: the final threaded state
evaluate(tracks, frame, timestamp) ==
    cleanup_resolved_incidents(
        EvalLoop(EngineState, rules, tracks, 1, frame, timestamp, fps), timestamp)

(***************************************************************************)
(* Inputs of the model: the rules given to the engine and the tracks the   *)
(* tracker hands to evaluate.                                              *)
(***************************************************************************)
Prompt == <<"f", "o", "r", "k">>

OtherPrompt == <<"c", "a", "r">>

MkRule(id, dwell, min_frames, cooldown) ==
    [rule_id |-> id, prompt_positive |-> Prompt,
     conditions |-> [dwell_seconds |-> dwell, min_confidence |-> 40,
                     min_frames |-> min_frames, require_helmetless |-> FALSE],
     roi |-> None,
     actions |-> [cooldown_seconds |-> cooldown, record_pre_seconds |-> 2,
                  record_post_seconds |-> 2, notify_channels |-> <<"console">>]]

\* at fps 2: dwell 1.0 s, cooldown 1.0 s
RuleZone == MkRule("zone", 2, 2, 2)

\* no dwell at all, no cooldown
RuleInstant == MkRule("instant", 0, 1, 0)

\* at fps 2: dwell 0.5 s over at least 3 frames
RuleLoiter == MkRule("loiter", 1, 3, 1)

RuleLists == {<<RuleZone, RuleInstant>>, <<RuleLoiter>>}

\* the tracker's ids: two tracks beside a single rule, one track beside two rules
TrackIds == IF Len(rules) = 1 THEN {1, 2} ELSE {1}

Detection(conf, prompt, frame) ==
    [confidence |-> conf, prompt_used |-> prompt, frame_id |-> frame]

MkTrack(id, state, conf, history) ==
    [track_id |-> id, class_name |-> "forklift", state |-> state,
     bbox |-> <<0, 0, 10, 10>>, confidence |-> conf, detection_history |-> history]

\* what the tracker can hand over for track id on frame f
TrackInputs(id, f) ==
    { MkTrack(id, "confirmed", 90, <<Detection(90, Prompt, f)>>),
      MkTrack(id, "confirmed", 30, <<Detection(30, Prompt, f)>>),
      MkTrack(id, "confirmed", 90, <<Detection(90, OtherPrompt, f)>>) }

AllTrackInputs(f) == UNION {TrackInputs(id, f) : id \in TrackIds}

\* the track lists of frame f: each track absent or present, in id order
TrackLists(f) ==
    {<<>>}
    \cup {<<t>> : t \in AllTrackInputs(f)}
    \cup {<<p[1], p[2]>> : p \in {q \in AllTrackInputs(f) \X AllTrackInputs(f) :
                                       q[1].track_id < q[2].track_id}}

RuleIds == {rules[i].rule_id : i \in DOMAIN rules}

RuleOf(rule_id) == rules[CHOOSE i \in DOMAIN rules : rules[i].rule_id = rule_id]

Keys == TrackIds \X RuleIds

(***************************************************************************)
(* Init: RuleEngine.__init__ and the main loop's variables.                *)
(***************************************************************************)
InitEngine ==
    /\ frame_id = 0
    /\ heap = <<>>
    /\ incidents = <<>>
    /\ active_incidents_by_track = EmptyDict
    /\ track_rule_timers = EmptyDict
    /\ track_rule_frames = EmptyDict
    /\ helmet_history = EmptyDict
    /\ returned = <<>>
    /\ matched = {}
    /\ last_call = <<"__init__">>
    /\ window_first = [k \in Keys |-> 0]

\* the engine on its own: no ring buffer, recorder or notification manager
\* main is in its loop; no adapter object is looked at
NoAdapters ==
    /\ pc = "loop"
    /\ adapters = <<>>
    /\ wall_clock = 0
    /\ delivered = <<>>

NoPipeline ==
    /\ NoAdapters
    /\ max_frames = 0
    /\ max_memory_mb = 0
    /\ estimated_frame_size_mb = 0
    /\ buffer = <<>>
    /\ source = [name |-> "none"]
    /\ inserted = <<>>
    /\ io = [op |-> "__init__"]
    /\ recorded_incidents = {}
    /\ evidence = <<>>
    /\ notifiers = {}
    /\ dispatch = [op |-> "__init__"]

Init ==
    /\ rules \in RuleLists
    /\ fps = 2
    /\ InitEngine
    /\ NoPipeline

(***************************************************************************)
(* One pass of the main loop as far as the engine is concerned:            *)
(* frame_id += 1; timestamp = frame_id / fps; evaluate(tracks, ...).       *)
(* final_heap is the incidents as the pass leaves them: as evaluate left   *)
(* them, or as the loop's incident handling did after it.                  *)
(***************************************************************************)
EvaluateFrameInto(tracks_in, final_heap) ==
    LET f == frame_id + 1
        timestamp == Timestamp(f)
        enriched == infer_helmet_status(tracks_in, helmet_history)
        tracks == enriched.tracks
        st == evaluate(tracks, f, timestamp)
        present == {tracks[i].track_id : i \in DOMAIN tracks}
        hit == {k \in Keys : \E i \in DOMAIN tracks :
                    /\ tracks[i].track_id = k[1]
                    /\ track_matches_rule(tracks[i], RuleOf(k[2]))}
    IN  /\ frame_id' = f
        /\ helmet_history' = enriched.hist
        /\ heap' = final_heap
        /\ incidents' = st.incidents
        /\ active_incidents_by_track' = st.active
        /\ track_rule_timers' = st.timers
        /\ track_rule_frames' = st.frames
        /\ returned' = st.ret
        /\ matched' = hit
        /\ last_call' = <<"evaluate">>
        /\ window_first' = [k \in Keys |->
                               IF k[1] \notin present THEN window_first[k]
                               ELSE IF k \notin hit THEN 0
                               ELSE IF window_first[k] = 0 THEN f
                               ELSE window_first[k]]
        /\ UNCHANGED <<rules, fps>>

\* what evaluate leaves of the engine on the next frame, given the tracks
EvaluateOutcome(tracks_in) ==
    evaluate(infer_helmet_status(tracks_in, helmet_history).tracks,
             frame_id + 1, Timestamp(frame_id + 1))

EvaluateFrame(tracks_in) ==
    EvaluateFrameInto(tracks_in, EvaluateOutcome(tracks_in).heap)

Evaluate ==
    /\ frame_id < MaxFrame
    /\ \E tracks_in \in TrackLists(frame_id + 1) : EvaluateFrame(tracks_in)
    /\ UNCHANGED pipeline_vars

(***************************************************************************)
(* resolve_incident(incident_id, timestamp)                                *)
(***************************************************************************)
\* faulty variant: the incident is reopened
resolve_incident_Reopen(objs, reg, incident_id, timestamp) ==
    IF incident_id \in Ids(reg)
    THEN [objs EXCEPT ![reg[Pos(reg, incident_id)].ref] =
              [@ EXCEPT !.state = "tentative", !.resolved_time = Some(timestamp)]]
    ELSE objs

\* faulty variant: every incident of the registry is resolved
resolve_incident_All(objs, reg, incident_id, timestamp) ==
    IF incident_id \in Ids(reg)
    THEN [i \in DOMAIN objs |->
             [objs[i] EXCEPT !.state = "resolved", !.resolved_time = Some(timestamp)]]
    ELSE objs

resolve_incident(objs, reg, incident_id, timestamp) ==
    IF incident_id \in Ids(reg)
    THEN [objs EXCEPT ![reg[Pos(reg, incident_id)].ref] =
              [@ EXCEPT !.state = "resolved", !.resolved_time = Some(timestamp)]]
    ELSE objs

UnknownId == <<"nowhere", 0, 0>>

\* What the calls of resolve_incident, mark_notified and record_incident have
\* left on one incident, counted to bound them: a resolution, the
\* notifications, the snapshots and the clip.
CallsOn(inc) ==
    (IF inc.state = "resolved" THEN 1 ELSE 0) + inc.notification_count
        + Len(inc.snapshots) + (IF inc.video_clip_path # None THEN 1 ELSE 0)

RECURSIVE Calls(_)
Calls(objs) == IF objs = <<>> THEN 0 ELSE CallsOn(objs[1]) + Calls(Tail(objs))

ResolveIncident ==
    /\ Calls(heap) < MaxCalls
    /\ \E incident_id \in Ids(incidents) \cup {UnknownId} :
       \E timestamp \in {0, Timestamp(frame_id)} :
          /\ heap' = resolve_incident(heap, incidents, incident_id, timestamp)
          /\ last_call' = <<"resolve_incident", incident_id, timestamp>>
    /\ UNCHANGED <<rules, fps, frame_id, incidents, active_incidents_by_track,
                   track_rule_timers, track_rule_frames, helmet_history, returned,
                   matched, window_first>>
    /\ UNCHANGED pipeline_vars

(***************************************************************************)
(* should_notify(incident, current_timestamp, rule) and                    *)
(* mark_notified(incident, timestamp)                                      *)
(***************************************************************************)
\* faulty variant: elapsed > cooldown_seconds
should_notify_Strict(incident, current_timestamp, rule, rate) ==
    IF incident.state # "confirmed" THEN FALSE
    ELSE IF incident.last_notification_time = None THEN TRUE
    ELSE current_timestamp - Val(incident.last_notification_time)
             > rule.actions.cooldown_seconds

should_notify(incident, current_timestamp, rule, rate) ==
    IF incident.state # "confirmed" THEN FALSE
    ELSE IF incident.last_notification_time = None THEN TRUE
    ELSE FloatElapsedGE(current_timestamp, Val(incident.last_notification_time),
                        rule.actions.cooldown_seconds, rate)

\* faulty variant: the counter is not raised
mark_notified_NoCount(incident, timestamp) ==
    [incident EXCEPT !.last_notification_time = Some(timestamp)]

mark_notified(incident, timestamp) ==
    [incident EXCEPT !.last_notification_time = Some(timestamp),
                     !.notification_count = @ + 1]

Registered == {incidents[i].ref : i \in DOMAIN incidents}

MarkNotified ==
    /\ Calls(heap) < MaxCalls
    /\ \E ref \in Registered :
          /\ heap' = [heap EXCEPT ![ref] = mark_notified(@, Timestamp(frame_id))]
          /\ last_call' = <<"mark_notified", ref, Timestamp(frame_id)>>
    /\ UNCHANGED <<rules, fps, frame_id, incidents, active_incidents_by_track,
                   track_rule_timers, track_rule_frames, helmet_history, returned,
                   matched, window_first>>
    /\ UNCHANGED pipeline_vars

\* faulty variant: the clip is kept only beside a snapshot
record_incident_Coupled(incident, saved_snapshot, saved_clip) ==
    IF incident.state # "confirmed" THEN incident
    ELSE IF saved_snapshot
         THEN [incident EXCEPT
                  !.snapshots = Append(@, <<incident.incident_id, "snapshot.jpg">>),
                  !.video_clip_path = IF saved_clip
                                      THEN Some(<<incident.incident_id, "clip.mp4">>)
                                      ELSE @]
         ELSE incident

(***************************************************************************)
(* IncidentRecorder.record_incident(incident, rule, current_timestamp).    *)
(* saved_snapshot and saved_clip are whether ring_buffer.save_snapshot and *)
(* ring_buffer.extract_clip returned a path.                               *)
(***************************************************************************)
record_incident(incident, saved_snapshot, saved_clip) ==
    IF incident.state # "confirmed" THEN incident
    ELSE LET snapped == IF saved_snapshot
                        THEN [incident EXCEPT !.snapshots =
                                 Append(@, <<incident.incident_id, "snapshot.jpg">>)]
                        ELSE incident
         IN  IF saved_clip
             THEN [snapped EXCEPT !.video_clip_path =
                      Some(<<incident.incident_id, "clip.mp4">>)]
             ELSE snapped

RecordIncident ==
    /\ \E ref \in Registered :
       \E saved_snapshot \in BOOLEAN, saved_clip \in BOOLEAN :
          /\ Calls(heap) < MaxCalls
          /\ heap' = [heap EXCEPT ![ref] = record_incident(@, saved_snapshot, saved_clip)]
          /\ last_call' = <<"record_incident", ref>>
    /\ UNCHANGED <<rules, fps, frame_id, incidents, active_incidents_by_track,
                   track_rule_timers, track_rule_frames, helmet_history, returned,
                   matched, window_first>>
    /\ UNCHANGED pipeline_vars

(***************************************************************************)
(* The run of spec section 8: one rule with dwell_seconds = 2.0 (60 ticks  *)
(* at 30 fps), min_frames = 3, min_confidence = 0.4; track 1 is in every    *)
(* frame's list, with confidence 0.9 or, to miss, 0.3.                     *)
(***************************************************************************)
RuleC5 == MkRule("c5", 60, 3, 900)

InitC5 ==
    /\ rules = <<RuleC5>>
    /\ fps = 30
    /\ InitEngine
    /\ NoPipeline

EvaluateC5 ==
    /\ frame_id < MaxFrameC5
    /\ \E conf \in {90, 30} :
          EvaluateFrame(<<MkTrack(1, "confirmed", conf,
                                  <<Detection(conf, Prompt, frame_id + 1)>>)>>)
    /\ UNCHANGED pipeline_vars

NextC5 == EvaluateC5

SpecC5 == InitC5 /\ [][NextC5]_vars

Next == Evaluate \/ ResolveIncident \/ MarkNotified \/ RecordIncident

Spec == Init /\ [][Next]_vars

(***************************************************************************)
(* VideoRingBuffer (src/src/core/record/ring_buffer.py).  An entry is the  *)
(* tuple (frame, timestamp, frame_id) as a record; a frame is its byte     *)
(* count and its content, the number of the frame it shows.  Sizes are     *)
(* kept in bytes: estimated_frame_size_mb is frame.nbytes / (1024 * 1024)  *)
(* in the code, and every comparison with max_memory_mb is written here    *)
(* multiplied through by BytesPerMB.                                       *)
(***************************************************************************)
BytesPerMB == 1048576

Frame(nbytes, content) == [nbytes |-> nbytes, content |-> content]

Entry(frame, timestamp, fid) ==
    [frame |-> frame, timestamp |-> timestamp, frame_id |-> fid]

\* faulty variant: a deque without maxlen
DequeAppend_Unbounded(q, maxlen, x) == Append(q, x)

\* deque(maxlen=maxlen).append(x): a full deque drops its leftmost entry
DequeAppend(q, maxlen, x) ==
    IF maxlen = 0 THEN <<>>
    ELSE IF Len(q) >= maxlen THEN Append(Tail(q), x)
    ELSE Append(q, x)

\* __init__(max_seconds, fps, max_memory_mb)
VideoRingBuffer(max_seconds, rate, cap_mb) ==
    [max_frames |-> max_seconds * rate, max_memory_mb |-> cap_mb,
     estimated_frame_size_mb |-> 0, buffer |-> <<>>]

\* the ring buffer of the current state
RingBuffer ==
    [max_frames |-> max_frames, max_memory_mb |-> max_memory_mb,
     estimated_frame_size_mb |-> estimated_frame_size_mb, buffer |-> buffer]

\* faulty variant: the quotient is rounded up
fitted_frames_Up(cap_mb, frame_bytes) ==
    (cap_mb * BytesPerMB + frame_bytes - 1) \div frame_bytes

\* int(self.max_memory_mb / self.estimated_frame_size_mb)
fitted_frames(cap_mb, frame_bytes) == (cap_mb * BytesPerMB) \div frame_bytes

add_frame(rb, frame, timestamp, fid) ==
    LET first == rb.estimated_frame_size_mb = 0
        est == IF first THEN frame.nbytes ELSE rb.estimated_frame_size_mb
        over == first /\ est * rb.max_frames > rb.max_memory_mb * BytesPerMB
        limit == IF over THEN fitted_frames(rb.max_memory_mb, est) ELSE rb.max_frames
        kept == IF over THEN <<>> ELSE rb.buffer
    IN  [max_frames |-> limit, max_memory_mb |-> rb.max_memory_mb,
         estimated_frame_size_mb |-> est,
         buffer |-> DequeAppend(kept, limit, Entry(frame, timestamp, fid))]

\* faulty variant: the lower bound is exclusive
in_range_Open(ts, start_time, end_time) == start_time < ts /\ ts <= end_time

\* start_time <= ts <= end_time
in_range(ts, start_time, end_time) == start_time <= ts /\ ts <= end_time

RECURSIVE clip_frames(_, _, _)
clip_frames(buf, start_time, end_time) ==
    IF buf = <<>> THEN <<>>
    ELSE IF in_range(buf[1].timestamp, start_time, end_time)
         THEN <<buf[1]>> \o clip_frames(Tail(buf), start_time, end_time)
         ELSE clip_frames(Tail(buf), start_time, end_time)

\* the outcome of a call: whether it raised, the path it returned (None: no
\* artifact) and the entries it wrote to the artifact
Outcome(raised, path, written) ==
    [raised |-> raised, path |-> path, written |-> written]

\* faulty variant: an empty selection is handed to the writer
extract_clip_NoCheck(buf, trigger_timestamp, pre_seconds, post_seconds, output_path, writer_opens) ==
    LET selected == clip_frames(buf, trigger_timestamp - pre_seconds,
                                trigger_timestamp + post_seconds)
    IN  IF buf = <<>> THEN Outcome(FALSE, None, <<>>)
        ELSE IF selected = <<>> THEN Outcome(TRUE, None, <<>>)
        ELSE IF ~writer_opens THEN Outcome(FALSE, None, <<>>)
        ELSE Outcome(FALSE, Some(output_path), selected)

\* extract_clip; writer_opens is what writer.isOpened() answers
extract_clip(buf, trigger_timestamp, pre_seconds, post_seconds, output_path, writer_opens) ==
    LET selected == clip_frames(buf, trigger_timestamp - pre_seconds,
                                trigger_timestamp + post_seconds)
    IN  IF buf = <<>> THEN Outcome(FALSE, None, <<>>)
        ELSE IF selected = <<>> THEN Outcome(FALSE, None, <<>>)
        ELSE IF ~writer_opens THEN Outcome(FALSE, None, <<>>)
        ELSE Outcome(FALSE, Some(output_path), selected)

Abs(x) == IF x < 0 THEN -x ELSE x

\* faulty variant: a later entry wins a tie
closer_OrEqual(x, best, timestamp) ==
    Abs(x.timestamp - timestamp) <= Abs(best.timestamp - timestamp)

\* min(..., key=lambda x: abs(x[1] - timestamp)) replaces its candidate only by
\* an entry with a strictly smaller key
closer(x, best, timestamp) ==
    Abs(x.timestamp - timestamp) < Abs(best.timestamp - timestamp)

RECURSIVE MinByDistance(_, _, _)
MinByDistance(rest, best, timestamp) ==
    IF rest = <<>> THEN best
    ELSE MinByDistance(Tail(rest),
                       IF closer(rest[1], best, timestamp) THEN rest[1] ELSE best,
                       timestamp)

\* get_frame_at_time: None, or the closest entry
get_frame_at_time(buf, timestamp) ==
    IF buf = <<>> THEN None
    ELSE Some(MinByDistance(Tail(buf), buf[1], timestamp))

\* save_snapshot; imwrite_ok is what cv2.imwrite answers
save_snapshot(buf, timestamp, output_path, imwrite_ok) ==
    LET result == get_frame_at_time(buf, timestamp)
    IN  IF result = None THEN Outcome(FALSE, None, <<>>)
        ELSE IF imwrite_ok THEN Outcome(FALSE, Some(output_path), <<Val(result)>>)
        ELSE Outcome(FALSE, None, <<>>)

(***************************************************************************)
(* The ring buffer under a video source.  Frames arrive as the main loop   *)
(* delivers them: frame ids 1, 2, ... with timestamp frame_id / fps.  A    *)
(* frame is never empty (nbytes > 0).  Clips and snapshots are asked for   *)
(* at the frame rates 1 and 2, where the tick arithmetic of the model is   *)
(* the double arithmetic of the code.                                      *)
(***************************************************************************)
VGAFrame == 640 * 480 * 3

SmallSizes == {BytesPerMB, (3 * BytesPerMB) \div 2, 6 * BytesPerMB}

\* a buffer of a few frames under a 5 MB cap, for each frame size of a
\* source; one whose caller stamps the frames two ticks apart; the buffer of
\* 10 s at 30 fps; a buffer of 16 s at 1 fps
BufferConfigs ==
    {[name |-> "small", max_seconds |-> m, fps |-> r, max_memory_mb |-> 5,
      nbytes |-> {n}, stride |-> 1] : m \in 1..3, r \in {1, 2}, n \in SmallSizes}
    \cup {[name |-> "sparse", max_seconds |-> 3, fps |-> 1, max_memory_mb |-> 5,
           nbytes |-> {BytesPerMB}, stride |-> 2],
          [name |-> "c11", max_seconds |-> 10, fps |-> 30, max_memory_mb |-> 500,
           nbytes |-> {VGAFrame}, stride |-> 1],
          [name |-> "c12", max_seconds |-> 16, fps |-> 1, max_memory_mb |-> 500,
           nbytes |-> {VGAFrame}, stride |-> 1]}

InsertBound ==
    CASE source.name = "c11" -> MaxInsertC11
      [] source.name = "c12" -> MaxInsertC12
      [] OTHER -> MaxInsert

InitRingBuffer(cfg) ==
    LET rb == VideoRingBuffer(cfg.max_seconds, cfg.fps, cfg.max_memory_mb)
    IN  /\ max_frames = rb.max_frames
        /\ max_memory_mb = rb.max_memory_mb
        /\ estimated_frame_size_mb = rb.estimated_frame_size_mb
        /\ buffer = rb.buffer
        /\ source = cfg
        /\ inserted = <<>>
        /\ io = [op |-> "__init__"]

InitBuffer ==
    /\ NoAdapters
    /\ \E cfg \in BufferConfigs : fps = cfg.fps /\ InitRingBuffer(cfg)
    /\ rules = <<>>
    /\ InitEngine
    /\ recorded_incidents = {}
    /\ evidence = <<>>
    /\ notifiers = {}
    /\ dispatch = [op |-> "__init__"]

\* ring_buffer.add_frame(frame, timestamp, frame_id) on the next frame
AddFrameOf(nbytes) ==
    LET f == frame_id + 1
        rb == add_frame(RingBuffer, Frame(nbytes, f), Timestamp(f) * source.stride, f)
    IN  /\ max_frames' = rb.max_frames
        /\ max_memory_mb' = rb.max_memory_mb
        /\ estimated_frame_size_mb' = rb.estimated_frame_size_mb
        /\ buffer' = rb.buffer
        /\ inserted' = Append(inserted, Entry(Frame(nbytes, f),
                                               Timestamp(f) * source.stride, f))
        /\ UNCHANGED source

AddFrame ==
    /\ UNCHANGED adapter_vars
    /\ frame_id < InsertBound
    /\ \E nbytes \in source.nbytes : AddFrameOf(nbytes)
    /\ frame_id' = frame_id + 1
    /\ io' = [op |-> "add_frame"]
    /\ UNCHANGED <<rules, fps, heap, incidents, active_incidents_by_track,
                   track_rule_timers, track_rule_frames, helmet_history, returned,
                   matched, last_call, window_first>>
    /\ UNCHANGED <<recorded_incidents, evidence, notifiers, dispatch>>

\* the timestamps and spans (in ticks) a caller asks about
Triggers == IF source.name = "c12" THEN {10} ELSE 0..((frame_id + 1) * source.stride)

Spans == IF source.name = "c12" THEN {2, 3} ELSE 0..2

ExtractClip ==
    /\ UNCHANGED adapter_vars
    /\ fps \in {1, 2}
    /\ \E trigger \in Triggers, pre \in Spans, post \in Spans, writer_opens \in BOOLEAN :
          io' = [op |-> "extract_clip", trigger |-> trigger, pre |-> pre,
                 post |-> post, writer_opens |-> writer_opens,
                 out |-> extract_clip(buffer, trigger, pre, post, "clip.mp4",
                                      writer_opens)]
    /\ UNCHANGED engine_vars
    /\ UNCHANGED <<max_frames, max_memory_mb, estimated_frame_size_mb, buffer,
                   source, inserted, recorded_incidents, evidence, notifiers,
                   dispatch>>

SaveSnapshot ==
    /\ UNCHANGED adapter_vars
    /\ fps \in {1, 2}
    /\ \E timestamp \in Triggers, imwrite_ok \in BOOLEAN :
          io' = [op |-> "save_snapshot", timestamp |-> timestamp,
                 imwrite_ok |-> imwrite_ok,
                 out |-> save_snapshot(buffer, timestamp, "snapshot.jpg", imwrite_ok)]
    /\ UNCHANGED engine_vars
    /\ UNCHANGED <<max_frames, max_memory_mb, estimated_frame_size_mb, buffer,
                   source, inserted, recorded_incidents, evidence, notifiers,
                   dispatch>>

NextBuffer == AddFrame \/ ExtractClip \/ SaveSnapshot

SpecBuffer == InitBuffer /\ [][NextBuffer]_vars

(***************************************************************************)
(* NotificationManager (src/src/core/notify/notification_manager.py).      *)
(* An adapter's send is the environment's: it returns true, returns false  *)
(* (a refused or rate-limited delivery) or raises; the console adapter     *)
(* prints and returns true, or raises.                                     *)
(***************************************************************************)
Channels == {"console", "slack", "email", "mqtt"}

\* what configs/notifications holds for a channel: no file, a file that
\* enables it, a file that disables it, a file that cannot be loaded
FileStates == {"absent", "enabled", "disabled", "broken"}

NotifierConfigs == [Channels -> FileStates]

\* _load_notifiers: the console is loaded unless its file disables it or
\* cannot be loaded; every other adapter is loaded only by a file that enables it
load_notifiers(config) ==
    {c \in Channels :
        IF c = "console" THEN config[c] \in {"absent", "enabled"}
        ELSE config[c] = "enabled"}

SendOutcomes(channel) ==
    IF channel = "console" THEN {"true", "raise"} ELSE {"true", "false", "raise"}

\* NotificationPayload, as far as the evidence goes
Payload(incident) ==
    [incident_id |-> incident.incident_id,
     confirmed_time |-> IF incident.confirmed_time # None
                        THEN Val(incident.confirmed_time)
                        ELSE incident.first_detected_time,
     snapshot_path |-> IF incident.snapshots # <<>>
                       THEN Some(incident.snapshots[1]) ELSE None,
     video_clip_path |-> incident.video_clip_path]

\* the state of a notify call: the sends made so far, the result map, and
\* whether an exception has escaped
Dispatching == [sends |-> <<>>, results |-> EmptyDict, raised |-> FALSE]

\* faulty variant: an exception of send escapes
send_to_Propagate(acc, channel, outcome) ==
    IF outcome = "raise"
    THEN [acc EXCEPT !.sends = Append(@, channel), !.raised = TRUE]
    ELSE [acc EXCEPT !.sends = Append(@, channel),
                     !.results = Put(@, channel, outcome = "true")]

\* try: results[channel] = send(payload); except: results[channel] = False
send_to(acc, channel, outcome) ==
    [acc EXCEPT !.sends = Append(@, channel),
                !.results = Put(@, channel, outcome = "true")]

RECURSIVE NotifyLoop(_, _, _, _, _)
NotifyLoop(acc, loaded, notify_channels, i, outcome) ==
    IF i > Len(notify_channels) \/ acc.raised THEN acc
    ELSE LET channel_name == notify_channels[i]
         IN  NotifyLoop(
                 IF channel_name \in loaded
                 THEN send_to(acc, channel_name, outcome[channel_name])
                 ELSE [acc EXCEPT !.results = Put(@, channel_name, FALSE)],
                 loaded, notify_channels, i + 1, outcome)

\* faulty variant: the console is sent to whether or not the rule names it
always_on_Twice(acc, loaded, notify_channels) ==
    IF ~acc.raised /\ "console" \in loaded
    THEN [acc EXCEPT !.sends = Append(@, "console")]
    ELSE acc

\* the console receives the payload if loaded and not named by the rule; the
\* outcome of this send is not put in the result map
always_on(acc, loaded, notify_channels) ==
    IF ~acc.raised /\ "console" \in loaded /\ "console" \notin Range(notify_channels)
    THEN [acc EXCEPT !.sends = Append(@, "console")]
    ELSE acc

\* notify(incident, rule); outcome is what each adapter's send does
notify(loaded, incident, rule, outcome) ==
    LET done == always_on(NotifyLoop(Dispatching, loaded,
                                     rule.actions.notify_channels, 1, outcome),
                          loaded, rule.actions.notify_channels)
    IN  [payload |-> Payload(incident), sends |-> done.sends,
         results |-> done.results, raised |-> done.raised]

\* the channel lists of a rule: up to MaxChannels names, each named once; a
\* rule may name a channel the manager does not know
ChannelNames == {"console", "slack", "email", "sms"}

RECURSIVE ChannelListsOf(_)
ChannelListsOf(n) ==
    IF n = 0 THEN {<<>>}
    ELSE LET shorter == ChannelListsOf(n - 1)
         IN  shorter \cup {Append(l, c) : l \in {x \in shorter : Len(x) = n - 1},
                                          c \in ChannelNames}

ChannelLists ==
    {l \in ChannelListsOf(MaxChannels) :
        \A i, j \in DOMAIN l : i # j => l[i] # l[j]}

\* the incident of the dispatches: confirmed, with its evidence recorded
AlertedIncident ==
    [NewIncident(IncidentId("zone", 1, 4, 2), "zone", 1, 2) EXCEPT
        !.state = "confirmed", !.confirmed_time = Some(4)]

RuleWithChannels(rule, channels) ==
    [rule EXCEPT !.actions = [@ EXCEPT !.notify_channels = channels]]

\* the loaded adapters a dispatch to these channels calls
Addressed(loaded, channels) == loaded \cap (Range(channels) \cup {"console"})

InitNotify ==
    /\ NoAdapters
    /\ \E config \in NotifierConfigs : notifiers = load_notifiers(config)
    /\ dispatch = [op |-> "__init__"]
    /\ rules = <<RuleZone>>
    /\ fps = 2
    /\ InitEngine
    /\ max_frames = 0
    /\ max_memory_mb = 0
    /\ estimated_frame_size_mb = 0
    /\ buffer = <<>>
    /\ source = [name |-> "none"]
    /\ inserted = <<>>
    /\ io = [op |-> "__init__"]
    /\ recorded_incidents = {}
    /\ evidence = <<>>

Notify ==
    /\ UNCHANGED adapter_vars
    /\ \E channels \in ChannelLists :
       \E outcome \in [Addressed(notifiers, channels) -> {"true", "false", "raise"}] :
          /\ \A c \in DOMAIN outcome : outcome[c] \in SendOutcomes(c)
          /\ dispatch' = [op |-> "notify", channels |-> channels,
                          outcome |-> outcome,
                          out |-> notify(notifiers, AlertedIncident,
                                         RuleWithChannels(rules[1], channels),
                                         outcome)]
    /\ UNCHANGED engine_vars
    /\ UNCHANGED <<max_frames, max_memory_mb, estimated_frame_size_mb, buffer,
                   source, inserted, io, recorded_incidents, evidence, notifiers>>

NextNotify == Notify

SpecNotify == InitNotify /\ [][NextNotify]_vars

(***************************************************************************)
(* The frame loop of main (src/main_new23_02.py, lines 133-189): read a    *)
(* frame, write it to the ring buffer, evaluate the rule on the tracker's  *)
(* tracks, and for each returned incident that is confirmed, not yet       *)
(* recorded and due for notification: record_incident, notify,             *)
(* mark_notified, recorded_incidents.add.  The run has a frame rate of 1,  *)
(* one rule, and a source of 640x480 or of 7680x4320 frames.               *)
(***************************************************************************)
UHDFrame == 7680 * 4320 * 3

DefaultMemoryMB == 500

\* dwell 1 s over at least 2 frames, cooldown 2 s, clips of 2 s before and after
RuleMain == MkRule("main", 1, 2, 2)

\* VideoRingBuffer(max_seconds=int(pre + post + 10), fps=video_source.fps)
MainSource(rule, rate, nbytes) ==
    [name |-> "main",
     max_seconds |-> IntOf(rule.actions.record_pre_seconds
                           + rule.actions.record_post_seconds + 10 * rate, rate),
     fps |-> rate, max_memory_mb |-> DefaultMemoryMB, nbytes |-> {nbytes},
     stride |-> 1]

\* incident.confirmed_time or current_timestamp
TriggerOf(incident, current_timestamp) ==
    IF incident.confirmed_time # None /\ Val(incident.confirmed_time) # 0
    THEN Val(incident.confirmed_time)
    ELSE current_timestamp

\* save_metadata: the evidence part of the JSON document
Metadata(incident) ==
    [incident_id |-> incident.incident_id, state |-> incident.state,
     snapshots |-> incident.snapshots, video_clip |-> incident.video_clip_path]

\* IncidentRecorder.record_incident on the ring buffer buf: the incident as
\* it leaves it, the outcomes of the two evidence steps, the metadata written
\* (None: not written) and the value returned
record_evidence(buf, incident, rule, current_timestamp, env) ==
    IF incident.state # "confirmed"
    THEN [incident |-> incident, snapshot |-> None, clip |-> None,
          metadata |-> None, returned |-> FALSE]
    ELSE LET trigger == TriggerOf(incident, current_timestamp)
             snap == save_snapshot(buf, trigger,
                                   <<incident.incident_id, "snapshot.jpg">>,
                                   env.imwrite_ok)
             clip == extract_clip(buf, trigger, rule.actions.record_pre_seconds,
                                  rule.actions.record_post_seconds,
                                  <<incident.incident_id, "clip.mp4">>,
                                  env.writer_opens)
             after == record_incident(incident, snap.path # None, clip.path # None)
         IN  [incident |-> after, snapshot |-> Some(snap), clip |-> Some(clip),
              metadata |-> Some(Metadata(after)), returned |-> TRUE]

\* what the environment does to the calls made for one incident
Envs(loaded, rule) ==
    {e \in [imwrite_ok : BOOLEAN, writer_opens : BOOLEAN,
            outcome : [Addressed(loaded, rule.actions.notify_channels)
                          -> {"true", "false", "raise"}]] :
        \A c \in DOMAIN e.outcome : e.outcome[c] \in SendOutcomes(c)}

\* faulty variant: notify is given the incident as it was before recording
Notified_Early(incident, rec) == incident

\* the incident object notify is called with: the one record_incident has
\* just written the evidence paths to
Notified(incident, rec) == rec.incident

\* faulty variant: the frame is written to the ring buffer after the rules
\* have been evaluated on it
WrittenBuffer_Late(rb, frame, timestamp, fid) == rb.buffer

\* ring_buffer.add_frame(frame, timestamp, frame_id) comes first in the pass:
\* the buffer that the evidence of the pass is taken from
WrittenBuffer(rb, frame, timestamp, fid) == add_frame(rb, frame, timestamp, fid).buffer

\* faulty variant: an incident is kept out of the set until every channel
\* of the rule has taken it
RecordedAfter_IfDelivered(recorded, incident, sent) ==
    IF \A c \in DOMAIN sent.results : sent.results[c]
    THEN recorded \cup {incident.incident_id}
    ELSE recorded

\* recorded_incidents.add(incident.incident_id), whatever notify returned
RecordedAfter(recorded, incident, sent) == recorded \cup {incident.incident_id}

\* the handling of one returned incident; h threads the incidents, the
\* recorded set, the evidence log and the last dispatch
HandleIncident(h, ret, j, buf, rule, f, timestamp, envs) ==
    LET ref == ret[j]
        incident == h.heap[ref]
    IN  IF /\ incident.state = "confirmed"
           /\ incident.incident_id \notin h.recorded
           /\ should_notify(incident, timestamp, rule, fps)
        THEN LET env == envs[j]
                 rec == record_evidence(buf, incident, rule, timestamp, env)
                 sent == notify(notifiers, Notified(incident, rec), rule, env.outcome)
             IN  [heap |-> [h.heap EXCEPT ![ref] = mark_notified(rec.incident, timestamp)],
                  recorded |-> RecordedAfter(h.recorded, incident, sent),
                  evidence |-> Append(h.evidence,
                                  [ref |-> ref, frame |-> f,
                                   before |-> incident,
                                   trigger |-> TriggerOf(incident, timestamp),
                                   snapshot |-> rec.snapshot, clip |-> rec.clip,
                                   metadata |-> rec.metadata,
                                   returned |-> rec.returned,
                                   recorded |-> rec.incident,
                                   sent |-> sent]),
                  dispatch |-> [op |-> "notify",
                                channels |-> rule.actions.notify_channels,
                                outcome |-> env.outcome, out |-> sent]]
        ELSE h

RECURSIVE HandleAll(_, _, _, _, _, _, _, _)
HandleAll(h, ret, j, buf, rule, f, timestamp, env) ==
    IF j > Len(ret) THEN h
    ELSE HandleAll(HandleIncident(h, ret, j, buf, rule, f, timestamp, env),
                   ret, j + 1, buf, rule, f, timestamp, env)

\* the returned incidents the loop can get to record on this pass
Due(st) ==
    {j \in DOMAIN st.ret : /\ st.heap[st.ret[j]].state = "confirmed"
                           /\ st.heap[st.ret[j]].incident_id \notin recorded_incidents}

\* the tracker's lists in the run: track 1 absent, matching or too weak,
\* track 2 absent or matching
MainTracks(f) ==
    {l \in TrackLists(f) :
        \A i \in DOMAIN l :
           /\ l[i].detection_history[1].prompt_used = Prompt
           /\ l[i].track_id = 2 => l[i].confidence = 90}

InitMain ==
    /\ NoAdapters
    /\ rules = <<RuleMain>>
    /\ fps = 1
    /\ InitEngine
    /\ \E nbytes \in {VGAFrame, UHDFrame} :
          InitRingBuffer(MainSource(RuleMain, 1, nbytes))
    /\ recorded_incidents = {}
    /\ evidence = <<>>
    /\ \E config \in [Channels -> {"absent"}] \cup [Channels -> {"disabled"}] :
          notifiers = load_notifiers(config)
    /\ dispatch = [op |-> "__init__"]

MainFrame ==
    /\ UNCHANGED adapter_vars
    /\ frame_id < MaxMainFrame
    /\ \E nbytes \in source.nbytes, tracks_in \in MainTracks(frame_id + 1) :
          LET f == frame_id + 1
              st == EvaluateOutcome(tracks_in)
              buf == WrittenBuffer(RingBuffer, Frame(nbytes, f), Timestamp(f), f)
          IN  \E env \in [Due(st) -> Envs(notifiers, rules[1])] :
                 LET h == HandleAll([heap |-> st.heap, recorded |-> recorded_incidents,
                                     evidence |-> evidence, dispatch |-> dispatch],
                                    st.ret, 1, buf, rules[1], f, Timestamp(f), env)
                 IN  /\ AddFrameOf(nbytes)
                     /\ EvaluateFrameInto(tracks_in, h.heap)
                     /\ recorded_incidents' = h.recorded
                     /\ evidence' = h.evidence
                     /\ dispatch' = h.dispatch
                     /\ io' = [op |-> "add_frame"]
                     /\ UNCHANGED notifiers

NextMain == MainFrame

SpecMain == InitMain /\ [][NextMain]_vars

\* the same loop under a rule that names the chat webhook, with the webhook
\* adapter loaded or not; a send that the adapter's rate limit suppresses is
\* a send that returns false
InitDispatch ==
    /\ NoAdapters
    /\ rules = <<RuleWithChannels(RuleMain, <<"slack">>)>>
    /\ fps = 1
    /\ InitEngine
    /\ InitRingBuffer(MainSource(RuleMain, 1, VGAFrame))
    /\ recorded_incidents = {}
    /\ evidence = <<>>
    /\ \E slack \in {"enabled", "absent"} :
          notifiers = load_notifiers([c \in Channels |->
                          IF c = "slack" THEN slack ELSE "absent"])
    /\ dispatch = [op |-> "__init__"]

NextDispatch == MainFrame

SpecDispatch == InitDispatch /\ [][NextDispatch]_vars

(***************************************************************************)
(* The channel adapters (src/src/core/notify/base_notifier.py and the      *)
(* four notifiers).  time.time() is wall_clock, in whole seconds; a send   *)
(* reads it once in can_send and once more in mark_sent, `took` seconds    *)
(* later.  transport is what the channel's library does with the message:  *)
(* "ok", "fail" (an error status) or "raise".                              *)
(***************************************************************************)
\* time.time() when the first send of the run is made
Epoch == 10

BaseNotifier(enabled, rate_limit_seconds) ==
    [enabled |-> enabled, rate_limit_seconds |-> rate_limit_seconds,
     last_notification_time |-> 0]

can_send(a, current_time) ==
    IF ~a.enabled THEN FALSE
    ELSE IF current_time - a.last_notification_time < a.rate_limit_seconds THEN FALSE
    ELSE TRUE

mark_sent(a, current_time) == [a EXCEPT !.last_notification_time = current_time]

\* what a send leaves: the adapter, whether the message went out, and the
\* value returned (raised: the exception left send)
Sent(a, went_out, result, raised) ==
    [adapter |-> a, went_out |-> went_out, returned |-> result, raised |-> raised]

\* ConsoleNotifier.send: prints and returns True
console_send(a, now, took, transport) ==
    IF transport = "raise" THEN Sent(a, FALSE, FALSE, TRUE)
    ELSE Sent(a, TRUE, TRUE, FALSE)

\* SlackNotifier.send, EmailNotifier.send, MQTTNotifier.send
remote_send(a, now, took, transport) ==
    IF ~can_send(a, now) THEN Sent(a, FALSE, FALSE, FALSE)
    ELSE IF transport = "ok" THEN Sent(mark_sent(a, now + took), TRUE, TRUE, FALSE)
    ELSE Sent(a, FALSE, FALSE, FALSE)

adapter_send(channel, a, now, took, transport) ==
    IF channel = "console" THEN console_send(a, now, took, transport)
    ELSE remote_send(a, now, took, transport)

Transports(channel) ==
    IF channel = "console" THEN {"ok", "raise"} ELSE {"ok", "fail", "raise"}

InitAdapters ==
    /\ rules = <<>>
    /\ fps = 1
    /\ InitEngine
    /\ max_frames = 0
    /\ max_memory_mb = 0
    /\ estimated_frame_size_mb = 0
    /\ buffer = <<>>
    /\ source = [name |-> "none"]
    /\ inserted = <<>>
    /\ io = [op |-> "__init__"]
    /\ recorded_incidents = {}
    /\ evidence = <<>>
    /\ notifiers = Channels
    /\ dispatch = [op |-> "__init__"]
    /\ pc = "loop"
    /\ \E rate \in [Channels -> {1, 2}], off \in {"none", "email"} :
          adapters = [c \in Channels |-> BaseNotifier(c # off, rate[c])]
    /\ wall_clock = Epoch
    /\ delivered = <<>>

Tick ==
    /\ wall_clock < Epoch + MaxClock
    /\ wall_clock' = wall_clock + 1
    /\ UNCHANGED <<engine_vars, max_frames, max_memory_mb, estimated_frame_size_mb,
                   buffer, source, inserted, io, recorded_incidents, evidence,
                   notifiers, dispatch, pc, adapters, delivered>>

Send ==
    /\ Len(delivered) < MaxDeliveries
    /\ \E channel \in Channels, took \in {0, 1} :
       \E transport \in Transports(channel) :
          LET out == adapter_send(channel, adapters[channel], wall_clock, took,
                                  transport)
          IN  /\ wall_clock + took <= Epoch + MaxClock
              /\ adapters' = [adapters EXCEPT ![channel] = out.adapter]
              /\ wall_clock' = wall_clock + took
              /\ delivered' = IF out.went_out
                              THEN Append(delivered, [channel |-> channel,
                                                      time |-> wall_clock])
                              ELSE delivered
              /\ dispatch' = [op |-> "send", channel |-> channel, at |-> wall_clock,
                              before |-> adapters, transport |-> transport,
                              out |-> out]
    /\ UNCHANGED <<engine_vars, max_frames, max_memory_mb, estimated_frame_size_mb,
                   buffer, source, inserted, io, recorded_incidents, evidence,
                   notifiers, pc>>

NextAdapters == Tick \/ Send

SpecAdapters == InitAdapters /\ [][NextAdapters]_vars

(***************************************************************************)
(* The frame loop with the sends of notify taken one at a time.  main      *)
(* calls notification_manager.notify (line 181) in the loop's own thread,  *)
(* and notify calls each adapter's send in turn (lines 117-135): while a   *)
(* send has not returned, main is inside it (pc = "send").  A send that    *)
(* never returns is a run in which SendReturns is never taken.  The run    *)
(* has one track, a rule that names the chat webhook, and the console and  *)
(* the chat-webhook adapters loaded.                                       *)
(***************************************************************************)
RuleBlocking == RuleWithChannels(RuleMain, <<"slack">>)

\* the tracker's lists in this run: track 1 absent, matching or too weak
BlockingTracks(f) ==
    {l \in MainTracks(f) : \A i \in DOMAIN l : l[i].track_id = 1}

\* the channels notify calls send on, in the order of the calls
SendOrder(loaded, rule) ==
    notify(loaded, AlertedIncident, rule,
           [c \in Addressed(loaded, rule.actions.notify_channels) |-> "true"]).sends

InitBlocking ==
    /\ rules = <<RuleBlocking>>
    /\ fps = 1
    /\ InitEngine
    /\ InitRingBuffer(MainSource(RuleBlocking, 1, VGAFrame))
    /\ recorded_incidents = {}
    /\ evidence = <<>>
    /\ notifiers = load_notifiers([c \in Channels |->
                       IF c = "slack" THEN "enabled" ELSE "absent"])
    /\ dispatch = [op |-> "__init__"]
    /\ pc = "loop"
    /\ adapters = <<>>
    /\ wall_clock = 0
    /\ delivered = <<>>

\* lines 139-181: a frame up to the first send of notify, or, with no
\* incident to handle or no send to make, to the end of the pass
LoopFrame ==
    /\ pc = "loop"
    /\ frame_id < MaxMainFrame
    /\ \E nbytes \in source.nbytes, tracks_in \in BlockingTracks(frame_id + 1) :
       \E imwrite_ok \in BOOLEAN, writer_opens \in BOOLEAN :
       \E st \in {EvaluateOutcome(tracks_in)}, order \in {SendOrder(notifiers, rules[1])} :
          LET f == frame_id + 1
              rule == rules[1]
              buf == add_frame(RingBuffer, Frame(nbytes, f), Timestamp(f), f).buffer
              due == {j \in Due(st) :
                         should_notify(st.heap[st.ret[j]], Timestamp(f), rule, fps)}
          IN  /\ AddFrameOf(nbytes)
              /\ io' = [op |-> "add_frame"]
              /\ UNCHANGED <<notifiers, adapters, wall_clock, delivered>>
              /\ IF due = {}
                 THEN /\ imwrite_ok /\ writer_opens
                      /\ EvaluateFrameInto(tracks_in, st.heap)
                      /\ UNCHANGED <<recorded_incidents, evidence, dispatch, pc>>
                 ELSE \E ref \in {st.ret[CHOOSE j \in due : TRUE]} :
                      \E rec \in {record_evidence(buf, st.heap[ref], rule, Timestamp(f),
                                       [imwrite_ok |-> imwrite_ok,
                                        writer_opens |-> writer_opens])} :
                      LET recorded == [st.heap EXCEPT ![ref] = rec.incident]
                          entry == [ref |-> ref, frame |-> f,
                                    before |-> st.heap[ref],
                                    trigger |-> TriggerOf(st.heap[ref], Timestamp(f)),
                                    snapshot |-> rec.snapshot, clip |-> rec.clip,
                                    metadata |-> rec.metadata,
                                    returned |-> rec.returned,
                                    recorded |-> rec.incident]
                      IN  /\ evidence' = Append(evidence, entry)
                          /\ UNCHANGED recorded_incidents
                          /\ IF order = <<>>
                             THEN /\ EvaluateFrameInto(tracks_in,
                                        [recorded EXCEPT ![ref] =
                                            mark_notified(@, Timestamp(f))])
                                  /\ dispatch' = [op |-> "notify", ref |-> ref,
                                                  pending |-> <<>>,
                                                  outcome |-> <<>>]
                                  /\ pc' = "loop"
                             ELSE /\ EvaluateFrameInto(tracks_in, recorded)
                                  /\ dispatch' = [op |-> "send", ref |-> ref,
                                                  pending |-> order,
                                                  outcome |-> <<>>]
                                  /\ pc' = "send"

\* the send in flight returns (or raises); notify goes on to its next send
\* or returns to main, which finishes the pass (lines 187-189)
SendReturns ==
    /\ pc = "send"
    /\ \E result \in SendOutcomes(dispatch.pending[1]) :
          LET channel == dispatch.pending[1]
              outcome == (channel :> result) @@ dispatch.outcome
              rest == Tail(dispatch.pending)
              ref == dispatch.ref
          IN  IF rest # <<>>
              THEN /\ dispatch' = [dispatch EXCEPT !.pending = rest,
                                                   !.outcome = outcome]
                   /\ UNCHANGED <<heap, recorded_incidents, pc>>
              ELSE /\ dispatch' = [op |-> "notify", ref |-> ref,
                                   pending |-> <<>>, outcome |-> outcome]
                   /\ heap' = [heap EXCEPT ![ref] =
                                  mark_notified(@, Timestamp(frame_id))]
                   /\ recorded_incidents' =
                         recorded_incidents \cup {heap[ref].incident_id}
                   /\ pc' = "loop"
    /\ UNCHANGED <<rules, fps, frame_id, incidents, active_incidents_by_track,
                   track_rule_timers, track_rule_frames, helmet_history, returned,
                   matched, last_call, window_first>>
    /\ UNCHANGED <<max_frames, max_memory_mb, estimated_frame_size_mb, buffer,
                   source, inserted, io, evidence, notifiers, adapters,
                   wall_clock, delivered>>

NextBlocking == LoopFrame \/ SendReturns

SpecBlocking == InitBlocking /\ [][NextBlocking]_vars

(***************************************************************************)
(* The start of main (src/main_new23_02.py, lines 39-61): the rule         *)
(* document is loaded by its file suffix, then the loop runs.  A document  *)
(* is what the checks look at: its suffix, whether it conforms to the JSON *)
(* schema (configs/schemas/rule_dsl_schema.json), its method, its          *)
(* dwell_seconds (in ticks), and whether it has every key the loader       *)
(* reads (complete).  The run has a frame rate of 1.                       *)
(***************************************************************************)
RuleDocuments ==
    [suffix : {".json", ".yaml", ".txt"}, conforms : BOOLEAN,
     method : {"composite", "other"}, dwell_seconds : {0, 1, 301},
     complete : BOOLEAN]

\* validate_rule_json: (is_valid, error_msg) as is_valid
validate_rule_json(doc, rate) ==
    IF ~doc.conforms THEN FALSE
    ELSE IF doc.method \notin {"direct", "composite"} THEN FALSE
    ELSE IF ~(rate <= 10 * doc.dwell_seconds /\ doc.dwell_seconds <= 300 * rate)
         THEN FALSE
    ELSE TRUE

\* parse_rule_from_json and Rule.from_yaml: the Rule object of a document
RuleOfDocument(doc) == MkRule("doc", doc.dwell_seconds, 2, 2)

\* lines 43-61: the rule main goes on with, or None when it raises
load_rule(doc, rate) ==
    IF doc.suffix = ".json"
    THEN IF ~validate_rule_json(doc, rate) THEN None
         ELSE IF ~doc.complete THEN None
         ELSE Some(RuleOfDocument(doc))
    ELSE IF doc.suffix \in {".yaml", ".yml"}
         THEN IF ~doc.complete THEN None ELSE Some(RuleOfDocument(doc))
    ELSE None

InitStartup ==
    /\ rules = <<>>
    /\ fps = 1
    /\ InitEngine
    /\ max_frames = 0
    /\ max_memory_mb = 0
    /\ estimated_frame_size_mb = 0
    /\ buffer = <<>>
    /\ source = [name |-> "none"]
    /\ inserted = <<>>
    /\ io = [op |-> "__init__"]
    /\ recorded_incidents = {}
    /\ evidence = <<>>
    /\ notifiers = {}
    /\ dispatch = [op |-> "__init__"]
    /\ pc = "load_rule"
    /\ adapters = <<>>
    /\ wall_clock = 0
    /\ delivered = <<>>

LoadRule ==
    /\ pc = "load_rule"
    /\ \E doc \in RuleDocuments :
          LET rule == load_rule(doc, fps)
          IN  /\ io' = [op |-> "load_rule", doc |-> doc, loaded |-> rule # None]
              /\ IF rule = None
                 THEN /\ pc' = "raised"
                      /\ UNCHANGED <<rules, window_first>>
                 ELSE /\ pc' = "loop"
                      /\ rules' = <<Val(rule)>>
                      /\ window_first' = [k \in {1, 2} \X {Val(rule).rule_id} |-> 0]
    /\ UNCHANGED <<fps, frame_id, heap, incidents, active_incidents_by_track,
                   track_rule_timers, track_rule_frames, helmet_history, returned,
                   matched, last_call>>
    /\ UNCHANGED <<max_frames, max_memory_mb, estimated_frame_size_mb, buffer,
                   source, inserted, recorded_incidents, evidence, notifiers,
                   dispatch, adapters, wall_clock, delivered>>

\* a pass of the loop, as far as the rule engine goes
StartupFrame ==
    /\ pc = "loop"
    /\ frame_id < MaxFrame
    /\ \E tracks_in \in MainTracks(frame_id + 1) : EvaluateFrame(tracks_in)
    /\ UNCHANGED pipeline_vars

NextStartup == LoadRule \/ StartupFrame

SpecStartup == InitStartup /\ [][NextStartup]_vars

(***************************************************************************)
(* The rule matcher on its own: a track and a rule are drawn, and          *)
(* _track_matches_rule is applied to them.                                 *)
(***************************************************************************)
\* the rectangle ROI of the matcher's rules
ZoneRect == <<<<0, 0>>, <<10, 10>>>>

\* the provenance strings of a detection: the rule's prompt, another
\* prompt, both in one detector pass, and none
PromptsUsed == {Prompt, OtherPrompt, OtherPrompt \o <<" ">> \o Prompt, <<>>}

MatcherHistories ==
    {<<>>}
    \cup {<<Detection(c, p, 1)>> : c \in {39, 40, 41, 90}, p \in PromptsUsed}
    \cup {<<Detection(90, Prompt, 1), Detection(c, p, 2)>> :
             c \in {39, 40}, p \in {Prompt, OtherPrompt}}

MatcherTracks ==
    {[MkTrack(1, st, 0, h) EXCEPT !.bbox = b] :
        st \in MatcherStates \cup {"tentative", "lost"},
        h \in MatcherHistories,
        b \in {<<0, 0, 10, 10>>, <<0, 0, 20, 10>>, <<10, 0, 20, 10>>}}

MatcherRules ==
    {[RuleZone EXCEPT !.conditions.require_helmetless = rh, !.roi = roi] :
        rh \in BOOLEAN,
        roi \in {None,
                 Some([enabled |-> FALSE, roi_type |-> "rectangle", points |-> ZoneRect]),
                 Some([enabled |-> TRUE, roi_type |-> "rectangle", points |-> ZoneRect])}}

InitMatcher ==
    /\ rules = <<>>
    /\ fps = 1
    /\ InitEngine
    /\ NoAdapters
    /\ max_frames = 0
    /\ max_memory_mb = 0
    /\ estimated_frame_size_mb = 0
    /\ buffer = <<>>
    /\ source = [name |-> "none"]
    /\ inserted = <<>>
    /\ \E track \in MatcherTracks, rule \in MatcherRules :
          io = [op |-> "input", track |-> track, rule |-> rule]
    /\ recorded_incidents = {}
    /\ evidence = <<>>
    /\ notifiers = {}
    /\ dispatch = [op |-> "__init__"]

TrackMatchesRule ==
    /\ io.op = "input"
    /\ io' = [op |-> "_track_matches_rule", track |-> io.track, rule |-> io.rule,
              out |-> track_matches_rule(io.track, io.rule)]
    /\ UNCHANGED <<engine_vars, max_frames, max_memory_mb, estimated_frame_size_mb,
                   buffer, source, inserted, recorded_incidents, evidence,
                   notifiers, dispatch, adapter_vars>>

NextMatcher == TrackMatchesRule

SpecMatcher == InitMatcher /\ [][NextMatcher]_vars

(***************************************************************************)
(* The ROI test on its own: an ROI and a point are drawn, with whole       *)
(* coordinates, and contains_point is applied to them.                     *)
(***************************************************************************)
Square10 == <<<<0, 0>>, <<10, 0>>, <<10, 10>>, <<0, 10>>>>

Grid == (0..MaxCoord) \X (0..MaxCoord)

Polygon(points) == [enabled |-> TRUE, roi_type |-> "polygon", points |-> points]

Disabled(roi) == [roi EXCEPT !.enabled = FALSE]

\* rectangles by two corners, in either order, enabled or not
Rectangles ==
    {[enabled |-> e, roi_type |-> "rectangle", points |-> <<c1, c2>>] :
        e \in BOOLEAN, c1 \in {0, 100} \X {0, 100}, c2 \in {0, 100} \X {0, 100}}

\* every triangle and quadrilateral with its vertices on the grid, degenerate
\* and self-intersecting ones included
PolygonsOn(grid) ==
    {Polygon(<<a, b, c>>) : a \in grid, b \in grid, c \in grid}
    \cup {Polygon(<<a, b, c, d>>) : a \in grid, b \in grid, c \in grid, d \in grid}

\* the points an ROI is tested at
PointsFor(roi) ==
    IF roi.roi_type = "rectangle" THEN {0, 50, 100, 150} \X {50, 100}
    ELSE IF roi.points = Square10 THEN {0, 5, 10, 15} \X {0, 5, 10}
    ELSE Grid

InitRoi ==
    /\ rules = <<>>
    /\ fps = 1
    /\ InitEngine
    /\ NoAdapters
    /\ max_frames = 0
    /\ max_memory_mb = 0
    /\ estimated_frame_size_mb = 0
    /\ buffer = <<>>
    /\ source = [name |-> "none"]
    /\ inserted = <<>>
    /\ \E roi \in Rectangles \cup {Polygon(Square10), Disabled(Polygon(Square10))}
                       \cup PolygonsOn(Grid) :
          \E point \in PointsFor(roi) :
              io = [op |-> "input", roi |-> roi, point |-> point]
    /\ recorded_incidents = {}
    /\ evidence = <<>>
    /\ notifiers = {}
    /\ dispatch = [op |-> "__init__"]

ContainsPoint ==
    /\ io.op = "input"
    /\ io' = [op |-> "contains_point", roi |-> io.roi, point |-> io.point,
              out |-> contains_point(io.roi, io.point),
              stale |-> /\ io.roi.enabled
                        /\ io.roi.roi_type = "polygon"
                        /\ reads_stale_xinters(io.point, io.roi.points)]
    /\ UNCHANGED <<engine_vars, max_frames, max_memory_mb, estimated_frame_size_mb,
                   buffer, source, inserted, recorded_incidents, evidence,
                   notifiers, dispatch, adapter_vars>>

\* the boxes around a centre: the point itself, and a box 2 wide and 4 high
BoxesAround(point) ==
    {<<point[1] - half[1], point[2] - half[2], point[1] + half[1], point[2] + half[2]>> :
        half \in {<<0, 0>>, <<1, 2>>}}

\* contains_bbox on a box whose centre is the point drawn
ContainsBbox ==
    /\ io.op = "input"
    /\ \E bbox \in BoxesAround(io.point) :
          io' = [op |-> "contains_bbox", roi |-> io.roi, point |-> io.point,
                 bbox |-> bbox, out |-> contains_bbox(io.roi, bbox)]
    /\ UNCHANGED <<engine_vars, max_frames, max_memory_mb, estimated_frame_size_mb,
                   buffer, source, inserted, recorded_incidents, evidence,
                   notifiers, dispatch, adapter_vars>>

\* the matcher on a track that passes every other check (state, history,
\* confidence, prompt), under a rule without an ROI or with the ROI drawn
MatchInRoi ==
    /\ io.op = "input"
    /\ \E bbox \in BoxesAround(io.point), roi \in {None, Some(io.roi)} :
          LET track == [MkTrack(1, "confirmed", 90, <<Detection(90, Prompt, 1)>>)
                           EXCEPT !.bbox = bbox]
              rule == [RuleMain EXCEPT !.roi = roi]
          IN  io' = [op |-> "_track_matches_rule", roi |-> io.roi, point |-> io.point,
                     track |-> track, rule |-> rule,
                     out |-> track_matches_rule(track, rule)]
    /\ UNCHANGED <<engine_vars, max_frames, max_memory_mb, estimated_frame_size_mb,
                   buffer, source, inserted, recorded_incidents, evidence,
                   notifiers, dispatch, adapter_vars>>

NextRoi == ContainsPoint \/ ContainsBbox \/ MatchInRoi

SpecRoi == InitRoi /\ [][NextRoi]_vars

(***************************************************************************)
(* The engine on person tracks: evaluate enriches the tracks it is given   *)
(* (infer_helmet_status) and then matches them.  The tracker hands over    *)
(* every track it holds, tentative ones included (ByteTracker.update       *)
(* returns list(self.tracks.values())).                                    *)
(***************************************************************************)
\* at fps 1: helmetless for 1 s over at least 2 frames
RuleHelmet ==
    [MkRule("helmet", 1, 2, 2) EXCEPT !.conditions.require_helmetless = TRUE]

\* track 1 as the tracker holds it: a person (new, promoted after 3 hits, or
\* lost), or a vehicle not yet promoted
SubjectTracks(f) ==
    {[MkTrack(1, state, 90, <<Detection(90, Prompt, f)>>) EXCEPT !.class_name = "person"] :
        state \in {"tentative", "confirmed", "lost"}}
    \cup {MkTrack(1, "tentative", 90, <<Detection(90, Prompt, f)>>)}

\* track 2: a helmet over the head region of track 1, detected with a
\* confidence above or below min_helmet_conf
HelmetTracks(f) ==
    {[MkTrack(2, "confirmed", conf, <<Detection(conf, Prompt, f)>>)
         EXCEPT !.class_name = "helmet", !.bbox = <<0, 0, 10, 4>>] : conf \in {90, 20}}

HelmetTrackLists(f) ==
    {<<>>}
    \cup {<<t>> : t \in SubjectTracks(f) \cup HelmetTracks(f)}
    \cup {<<t, h>> : t \in SubjectTracks(f), h \in HelmetTracks(f)}

InitHelmet ==
    /\ rules = <<RuleHelmet>>
    /\ fps = 1
    /\ InitEngine
    /\ NoPipeline

EvaluateHelmet ==
    /\ frame_id < MaxFrameHelmet
    /\ \E tracks_in \in HelmetTrackLists(frame_id + 1) :
          /\ EvaluateFrame(tracks_in)
          /\ io' = [op |-> "evaluate", tracks_in |-> tracks_in,
                    tracks |-> infer_helmet_status(tracks_in, helmet_history).tracks]
    /\ UNCHANGED <<max_frames, max_memory_mb, estimated_frame_size_mb, buffer,
                   source, inserted, recorded_incidents, evidence, notifiers,
                   dispatch, adapter_vars>>

NextHelmet == EvaluateHelmet

SpecHelmet == InitHelmet /\ [][NextHelmet]_vars

(***************************************************************************)
(* Properties.                                                             *)
(***************************************************************************)
PairOf(inc) == Key(inc.track_id, inc.rule_id)

Open(inc) == inc.state \in {"tentative", "confirmed"}

\* the registry entries of the open incidents of a pair
OpenFor(key) ==
    {i \in DOMAIN incidents :
        PairOf(heap[incidents[i].ref]) = key /\ Open(heap[incidents[i].ref])}

\* the last evaluate call returned an incident of the pair
ReturnedFor(key) == \E j \in DOMAIN returned : PairOf(heap[returned[j]]) = key

\* C1: the registry never holds two incidents in state tentative or confirmed
\* for the same (track id, rule id) pair.
C1_AtMostOneOpen == \A key \in Keys : Cardinality(OpenFor(key)) <= 1

\* a pair with a resolved incident and, created after it, an open one
C1_Witness ==
    \E key \in Keys :
        /\ Cardinality(OpenFor(key)) = 1
        /\ \E i \in DOMAIN incidents :
              /\ PairOf(heap[incidents[i].ref]) = key
              /\ heap[incidents[i].ref].state = "resolved"

DwellAndFrames(key) ==
    /\ Timestamp(frame_id) - track_rule_timers[key]
           >= RuleOf(key[2]).conditions.dwell_seconds
    /\ Len(track_rule_frames[key]) >= RuleOf(key[2]).conditions.min_frames

\* C4 as claimed: on every frame on which a pair matches, evaluate returns an
\* incident of the pair iff elapsed time >= dwell_seconds and frame count >=
\* min_frames, the first matching frame of a window included.
C4_Original == \A key \in matched : ReturnedFor(key) <=> DwellAndFrames(key)

\* C4 as amended: the first matching frame of a window only starts the window
\* and is never eligible; on every later matching frame the pair is eligible
\* iff elapsed time >= dwell_seconds and frame count >= min_frames.
C4_Amended ==
    \A key \in matched :
        ReturnedFor(key) <=> (window_first[key] # frame_id /\ DwellAndFrames(key))

\* on one frame, past the first of their windows, one matching pair is eligible
\* and another is not
C4_Witness ==
    \E k1, k2 \in matched :
        /\ window_first[k1] # frame_id /\ ReturnedFor(k1)
        /\ window_first[k2] # frame_id /\ ~ReturnedFor(k2)

KeyC5 == Key(1, "c5")

\* track 1 has matched on every frame from frame 1 to the current one
MatchedSinceFrame1 == window_first[KeyC5] = 1

\* C5 as claimed: after matching on each of frames 1..60 the registry holds
\* exactly one incident, first detected at frame 1's timestamp.
C5_Original ==
    (frame_id = 60 /\ MatchedSinceFrame1) =>
        /\ Len(incidents) = 1
        /\ heap[incidents[1].ref].first_detected_time = Timestamp(1)

\* C5 as amended: while the track has matched on every frame since frame 1,
\* the registry is empty up to frame 61 (at frame 60 the elapsed time is 59/30 s,
\* and at frame 61 the doubles 61/30 - 1/30 fall just below 2.0); from frame 62
\* on it holds exactly one incident, first detected at frame 1's timestamp,
\* tentative at frame 62, the first frame with elapsed time >= 2.0 s and frame
\* count >= 3, and confirmed from frame 63 on with confirmed_time frame 63's.
C5_Amended ==
    MatchedSinceFrame1 =>
        IF frame_id <= 61
        THEN incidents = <<>> /\ heap = <<>>
        ELSE /\ Len(incidents) = 1 /\ Len(heap) = 1
             /\ heap[1].first_detected_time = Timestamp(1)
             /\ heap[1].state = (IF frame_id = 62 THEN "tentative" ELSE "confirmed")
             /\ heap[1].confirmed_time =
                    (IF frame_id = 62 THEN None ELSE Some(Timestamp(63)))

\* the run has reached frame 63 without a miss and the incident is confirmed
C5_Witness ==
    /\ MatchedSinceFrame1
    /\ frame_id = 63
    /\ heap[1].state = "confirmed"

\* C6: an evaluate call that returns an incident of a pair either has created
\* it (no open incident of the pair existed): it is tentative, unconfirmed and
\* first detected at the start of the pair's dwell window; or has found it
\* tentative and made it confirmed with confirmed_time the frame's timestamp;
\* or has found it confirmed and left its state and confirmed_time as they
\* were.  No step of any kind changes a confirmed_time once it is set.
C6_PromotionOnce ==
    [][/\ frame_id' # frame_id =>
            \A j \in DOMAIN returned' :
                LET ref == returned'[j]
                    new == heap'[ref]
                IN  IF ref > Len(heap)
                    THEN /\ \A i \in DOMAIN incidents :
                               PairOf(heap[incidents[i].ref]) = PairOf(new)
                                   => ~Open(heap[incidents[i].ref])
                         /\ new.state = "tentative"
                         /\ new.confirmed_time = None
                         /\ new.first_detected_time
                                = Timestamp(window_first'[PairOf(new)])
                         /\ \E i \in DOMAIN incidents' :
                               incidents'[i] = [id |-> new.incident_id, ref |-> ref]
                    ELSE IF heap[ref].state = "tentative"
                    THEN /\ new.state = "confirmed"
                         /\ new.confirmed_time = Some(Timestamp(frame_id'))
                    ELSE /\ heap[ref].state = "confirmed"
                         /\ new.state = "confirmed"
                         /\ new.confirmed_time = heap[ref].confirmed_time
       /\ \A i \in DOMAIN heap :
             heap[i].confirmed_time # None
                 => heap'[i].confirmed_time = heap[i].confirmed_time]_vars

\* a confirmed incident that a later eligible frame has updated
C6_Witness ==
    \E j \in DOMAIN returned :
        /\ heap[returned[j]].state = "confirmed"
        /\ Val(heap[returned[j]].confirmed_time) < Timestamp(frame_id)
        /\ last_call[1] = "evaluate"

\* C7: every incident created in the run is still registered under its id.
C7_Retained ==
    \A i \in DOMAIN heap :
        \E e \in DOMAIN incidents :
            incidents[e] = [id |-> heap[i].incident_id, ref |-> i]

\* the timestamps a caller may ask should_notify about
Nows == 0..(frame_id + 3)

\* C8: should_notify(incident, now, rule) is true iff the incident is confirmed
\* and was never notified or now - last_notification_time >= cooldown_seconds.
C8_ShouldNotify ==
    \A i \in DOMAIN heap : \A now \in Nows : \A r \in DOMAIN rules :
        should_notify(heap[i], now, rules[r], fps)
            <=> /\ heap[i].state = "confirmed"
                /\ \/ heap[i].last_notification_time = None
                   \/ now - Val(heap[i].last_notification_time)
                          >= rules[r].actions.cooldown_seconds

\* a confirmed incident, notified before, that is due for a notification
\* again, and an incident that is not confirmed
C8_Witness ==
    \E i, j \in DOMAIN heap :
        /\ heap[i].state = "confirmed"
        /\ heap[i].last_notification_time # None
        /\ should_notify(heap[i], Timestamp(frame_id), RuleOf(heap[i].rule_id), fps)
        /\ heap[j].state # "confirmed"

\* C9 as claimed: right after mark_notified(incident, t) on a confirmed
\* incident, should_notify(incident, t, rule) is false for every rule.
C9_Original ==
    \A i \in DOMAIN heap : \A r \in DOMAIN rules :
        (heap[i].state = "confirmed" /\ last_call = <<"mark_notified", i, Timestamp(frame_id)>>)
            => ~should_notify(heap[i], Timestamp(frame_id), rules[r], fps)

\* C9 as amended: mark_notified(incident, t) sets last_notification_time to t
\* and raises notification_count by exactly one, and changes nothing else;
\* for a confirmed incident last notified at t, should_notify(incident, now,
\* rule) is false for every now with now - t < cooldown_seconds and true for
\* every now with now - t >= cooldown_seconds: right after mark_notified it is
\* false when cooldown_seconds > 0 and true when cooldown_seconds = 0.
C9_Amended ==
    [][/\ last_call'[1] = "mark_notified" /\ last_call' # last_call =>
            LET ref == last_call'[2]
                t == last_call'[3]
            IN  /\ heap'[ref] = [heap[ref] EXCEPT
                                    !.last_notification_time = Some(t),
                                    !.notification_count = @ + 1]
                /\ \A i \in DOMAIN heap : i # ref => heap'[i] = heap[i]
       /\ \A i \in DOMAIN heap' : \A now \in Nows : \A r \in DOMAIN rules :
             (heap'[i].state = "confirmed" /\ heap'[i].last_notification_time # None)
                 => (should_notify(heap'[i], now, rules[r], fps)
                        <=> now - Val(heap'[i].last_notification_time)
                                >= rules[r].actions.cooldown_seconds)]_vars

\* a confirmed incident just notified and still inside the cooldown of its rule
C9_Witness ==
    \E i \in DOMAIN heap :
        /\ last_call = <<"mark_notified", i, Timestamp(frame_id)>>
        /\ heap[i].state = "confirmed"
        /\ heap[i].notification_count = 1
        /\ RuleOf(heap[i].rule_id).actions.cooldown_seconds > 0
        /\ ~should_notify(heap[i], Timestamp(frame_id), RuleOf(heap[i].rule_id), fps)

\* C10: resolve_incident(id, t) on a registered id leaves the incident in state
\* resolved with resolved_time = t; an incident in state resolved stays in
\* that state whatever is called, and an evaluate call leaves every field of
\* it as it was.
C10_ResolvedTerminal ==
    [][/\ (last_call'[1] = "resolve_incident" /\ last_call' # last_call) =>
            \A e \in DOMAIN incidents :
                incidents[e].id = last_call'[2] =>
                    /\ heap'[incidents[e].ref].state = "resolved"
                    /\ heap'[incidents[e].ref].resolved_time = Some(last_call'[3])
       /\ \A i \in DOMAIN heap :
             heap[i].state = "resolved" =>
                 /\ heap'[i].state = "resolved"
                 /\ frame_id' # frame_id => heap'[i] = heap[i]]_vars

\* a resolved incident whose pair went on matching: the evaluate call that
\* just ended has returned a newer incident of the same pair
C10_Witness ==
    \E i \in DOMAIN heap : \E j \in DOMAIN returned :
        /\ heap[i].state = "resolved"
        /\ returned[j] # i
        /\ PairOf(heap[returned[j]]) = PairOf(heap[i])
        /\ last_call[1] = "evaluate"

(***************************************************************************)
(* Properties of the ring buffer.                                          *)
(***************************************************************************)
\* the last k entries of a sequence
LastOf(seq, k) == SubSeq(seq, Len(seq) - k + 1, Len(seq))

\* C11: the buffer never holds more than max_frames entries, and they are the
\* most recently inserted min(n, max_frames) entries in arrival order; with
\* capacity 300, after 301 insertions 300 entries remain and frame id 1 is gone.
C11_MostRecent ==
    /\ Len(buffer) <= max_frames
    /\ buffer = LastOf(inserted, Min2(Len(inserted), max_frames))
    /\ (source.name = "c11" /\ Len(inserted) = 301) =>
           /\ max_frames = 300
           /\ Len(buffer) = 300
           /\ \A i \in DOMAIN buffer : buffer[i].frame_id = i + 1

\* 301 frames have gone into the buffer of 10 s at 30 fps
C11_Witness ==
    /\ source.name = "c11"
    /\ Len(inserted) = 301
    /\ Len(buffer) = 300
    /\ buffer[1].frame_id = 2

InWindow(e, trigger, pre, post) ==
    trigger - pre <= e.timestamp /\ e.timestamp <= trigger + post

\* the place of an entry in the buffer
IndexOf(e) == CHOOSE i \in DOMAIN buffer : buffer[i] = e

\* the entries written by the last extract_clip call are exactly the stored
\* ones in the window, in arrival order
WroteWindow ==
    LET w == io.out.written
    IN  /\ \A j \in DOMAIN w :
              \E i \in DOMAIN buffer : buffer[i] = w[j]
        /\ \A i \in DOMAIN buffer :
              InWindow(buffer[i], io.trigger, io.pre, io.post)
                  <=> \E j \in DOMAIN w : w[j] = buffer[i]
        /\ \A j, k \in DOMAIN w : j < k => IndexOf(w[j]) < IndexOf(w[k])

\* C12: an extract_clip call that returns a path has written exactly the stored
\* entries with trigger - pre <= timestamp <= trigger + post, in arrival order,
\* and has left the buffer as it was; with stored timestamps 5..20, trigger 10,
\* pre 2, post 3 it has written the entries of timestamps 8, 9, 10, 11, 12, 13.
C12_ClipWindow ==
    [][(io'.op = "extract_clip" /\ io'.out.path # None) =>
          /\ buffer' = buffer
          /\ WroteWindow'
          /\ (source.name = "c12" /\ frame_id = 20 /\ io'.pre = 2 /\ io'.post = 3) =>
                 /\ [i \in DOMAIN buffer |-> buffer[i].timestamp] = [i \in 1..16 |-> i + 4]
                 /\ [j \in DOMAIN io'.out.written |-> io'.out.written[j].timestamp]
                        = <<8, 9, 10, 11, 12, 13>>]_vars

\* the clip of trigger 10, pre 2, post 3 cut from the stored timestamps 5..20
C12_Witness ==
    /\ source.name = "c12"
    /\ frame_id = 20
    /\ io.op = "extract_clip"
    /\ io.pre = 2 /\ io.post = 3
    /\ io.out.path # None
    /\ Len(io.out.written) = 6

\* C13: extract_clip on an empty buffer, with no stored entry in the window or
\* with a writer that does not open, and save_snapshot on an empty buffer,
\* return None without raising, write nothing and leave the buffer as it was.
C13_Absence ==
    [][/\ (/\ io'.op = "extract_clip"
           /\ \/ buffer = <<>>
              \/ \A i \in DOMAIN buffer :
                    ~InWindow(buffer[i], io'.trigger, io'.pre, io'.post)
              \/ ~io'.writer_opens)
          => /\ io'.out = Outcome(FALSE, None, <<>>)
             /\ buffer' = buffer
       /\ (io'.op = "save_snapshot" /\ buffer = <<>>)
          => /\ io'.out = Outcome(FALSE, None, <<>>)
             /\ buffer' = buffer]_vars

\* a clip asked of a buffer that holds frames, none of them in the window
C13_Witness ==
    /\ io.op = "extract_clip"
    /\ buffer # <<>>
    /\ io.writer_opens
    /\ \A i \in DOMAIN buffer : ~InWindow(buffer[i], io.trigger, io.pre, io.post)
    /\ io.out.path = None

Distance(e, timestamp) == Abs(e.timestamp - timestamp)

\* C14: a snapshot taken from a non-empty buffer shows one stored entry whose
\* distance to the target is minimal over the buffer, and no entry inserted
\* before it is as close.
C14_Closest ==
    (io.op = "save_snapshot" /\ buffer # <<>> /\ io.imwrite_ok) =>
        /\ Len(io.out.written) = 1
        /\ \E i \in DOMAIN buffer :
              /\ buffer[i] = io.out.written[1]
              /\ \A j \in DOMAIN buffer :
                    Distance(buffer[i], io.timestamp) <= Distance(buffer[j], io.timestamp)
              /\ \A j \in 1..(i - 1) :
                    Distance(buffer[i], io.timestamp) < Distance(buffer[j], io.timestamp)

\* a snapshot for a target midway between two stored entries: the earlier is shown
C14_Witness ==
    /\ io.op = "save_snapshot"
    /\ io.imwrite_ok
    /\ \E i, j \in DOMAIN buffer :
          /\ i < j
          /\ Distance(buffer[i], io.timestamp) = Distance(buffer[j], io.timestamp)
          /\ io.out.written = <<buffer[i]>>

\* the capacity the buffer was constructed with
ConfiguredFrames == source.max_seconds * source.fps

\* the memory cap in bytes
CapBytes == max_memory_mb * BytesPerMB

\* C15: before the first frame the capacity is the configured one; from the
\* first frame on it is floor(cap / first-frame size) if configured capacity x
\* first-frame size exceeds the cap and the configured capacity otherwise, so it
\* never exceeds the configured capacity, capacity x first-frame size never
\* exceeds the cap, and no later insertion changes it.
C15_Capacity ==
    IF inserted = <<>>
    THEN max_frames = ConfiguredFrames
    ELSE LET size == inserted[1].frame.nbytes
         IN  /\ IF ConfiguredFrames * size > CapBytes
                THEN /\ max_frames * size <= CapBytes
                     /\ (max_frames + 1) * size > CapBytes
                ELSE max_frames = ConfiguredFrames
             /\ max_frames <= ConfiguredFrames
             /\ max_frames * size <= CapBytes
             /\ estimated_frame_size_mb = size

\* a capacity shrunk to a quotient that is not whole, several frames later
C15_Witness ==
    /\ Len(inserted) >= 3
    /\ max_frames < ConfiguredFrames
    /\ max_frames > 0
    /\ max_frames * inserted[1].frame.nbytes < CapBytes

(***************************************************************************)
(* Properties of the notification manager.                                 *)
(***************************************************************************)
\* C18: notify returns normally whatever the adapters do; every channel the
\* rule names that has a loaded adapter has send invoked exactly once, and the
\* result map holds true for it if its send returned true and false if its
\* send returned false or raised, whatever happened to the other channels.
C18_Isolation ==
    dispatch.op = "notify" =>
        /\ ~dispatch.out.raised
        /\ \A c \in Range(dispatch.channels) \cap notifiers :
              /\ Count(dispatch.out.sends, c) = 1
              /\ c \in DOMAIN dispatch.out.results
              /\ dispatch.out.results[c] = (dispatch.outcome[c] = "true")

\* three named channels, all loaded: the first one's send raises, the other
\* two are sent to and succeed
C18_Witness ==
    /\ dispatch.op = "notify"
    /\ Len(dispatch.channels) = 3
    /\ Range(dispatch.channels) \subseteq notifiers
    /\ dispatch.outcome[dispatch.channels[1]] = "raise"
    /\ \A i \in 2..3 : dispatch.out.results[dispatch.channels[i]]
    /\ ~dispatch.out.results[dispatch.channels[1]]
    /\ Len(dispatch.out.sends) = 3

\* C19: the keys of the result map are the channels the rule names together
\* with every channel that was sent to, a named channel without a loaded
\* adapter maps to false, and the channels after it are still processed.
C19_ResultKeys ==
    dispatch.op = "notify" =>
        /\ DOMAIN dispatch.out.results
               = Range(dispatch.channels) \cup Range(dispatch.out.sends)
        /\ \A c \in Range(dispatch.channels) \ notifiers :
              ~dispatch.out.results[c]
        /\ \A c \in Range(dispatch.channels) \cap notifiers :
              c \in Range(dispatch.out.sends)

\* C20: in every notify call the console adapter's send is invoked exactly
\* once if the console is loaded, whether or not the rule names it, and not at
\* all if it is not loaded.
C20_AlwaysOn ==
    dispatch.op = "notify" =>
        Count(dispatch.out.sends, "console")
            = (IF "console" \in notifiers THEN 1 ELSE 0)

\* a rule that names other channels, one of them loaded, and not the console:
\* the console is sent to once, after them
C20_Witness ==
    /\ dispatch.op = "notify"
    /\ "console" \in notifiers
    /\ "console" \notin Range(dispatch.channels)
    /\ Len(dispatch.out.sends) >= 2
    /\ dispatch.out.sends[Len(dispatch.out.sends)] = "console"
    /\ Count(dispatch.out.sends, "console") = 1

(***************************************************************************)
(* Properties of the frame loop.                                           *)
(***************************************************************************)
\* C16: every record_incident call on a confirmed incident ran both evidence
\* steps, wrote the metadata and returned success; the snapshot list gained
\* the snapshot's path exactly when save_snapshot returned one, and
\* video_clip_path was set exactly when extract_clip returned one, each
\* whatever the other step did; the metadata holds the paths so left.
C16_RecordAlways ==
    \A i \in DOMAIN evidence :
        LET e == evidence[i]
        IN  e.before.state = "confirmed" =>
               /\ e.returned
               /\ e.snapshot # None /\ e.clip # None
               /\ e.metadata # None
               /\ e.recorded.snapshots
                     = (IF Val(e.snapshot).path # None
                        THEN Append(e.before.snapshots, Val(Val(e.snapshot).path))
                        ELSE e.before.snapshots)
               /\ e.recorded.video_clip_path
                     = (IF Val(e.clip).path # None THEN Val(e.clip).path
                        ELSE e.before.video_clip_path)
               /\ Val(e.metadata).snapshots = e.recorded.snapshots
               /\ Val(e.metadata).video_clip = e.recorded.video_clip_path

\* an incident whose snapshot could not be written and whose clip was: the
\* metadata has no snapshot and has the clip
C16_Witness ==
    \E i \in DOMAIN evidence :
        /\ evidence[i].before.state = "confirmed"
        /\ Val(evidence[i].snapshot).path = None
        /\ Val(evidence[i].clip).path # None
        /\ Val(evidence[i].metadata).snapshots = <<>>
        /\ Val(evidence[i].metadata).video_clip # None
        /\ evidence[i].returned

\* C17: the clip recorded for an incident holds every frame the run has
\* ingested and the buffer still holds whose timestamp lies in
\* [confirmed_time - pre_seconds, confirmed_time + post_seconds], the frames
\* after confirmed_time included.
C17_WholeWindow ==
    \A i \in DOMAIN evidence :
        LET e == evidence[i]
        IN  e.recorded.video_clip_path # None =>
               \A k \in DOMAIN buffer :
                  InWindow(buffer[k], Val(e.recorded.confirmed_time),
                           rules[1].actions.record_pre_seconds,
                           rules[1].actions.record_post_seconds)
                     => \E n \in DOMAIN Val(e.clip).written :
                           Val(e.clip).written[n] = buffer[k]

(***************************************************************************)
(* Properties of the channel adapters.                                     *)
(***************************************************************************)
\* C21: every adapter keeps its own minimum interval: two deliveries of one
\* adapter are at least its rate_limit_seconds apart, a send made sooner
\* after the adapter's last delivery returns false and delivers nothing, and
\* a send changes the state of no other adapter.
C21_RateLimited ==
    /\ \A i \in DOMAIN delivered : \A j \in DOMAIN delivered :
          (i < j /\ delivered[i].channel = delivered[j].channel)
             => delivered[j].time - delivered[i].time
                   >= adapters[delivered[i].channel].rate_limit_seconds
    /\ dispatch.op = "send" =>
          /\ (\E i \in DOMAIN delivered :
                 /\ delivered[i].channel = dispatch.channel
                 /\ (i < Len(delivered) \/ ~dispatch.out.went_out)
                 /\ dispatch.at - delivered[i].time
                       < adapters[dispatch.channel].rate_limit_seconds)
                => (~dispatch.out.went_out /\ ~dispatch.out.returned)
          /\ \A c \in Channels \ {dispatch.channel} :
                adapters[c] = dispatch.before[c]

\* C22: while a send of an adapter has not returned, the loop can take its
\* next frame (ingest it into the ring buffer and evaluate the rule).
C22_LoopNotStalled ==
    (pc = "send" /\ frame_id < MaxMainFrame) => ENABLED LoopFrame

\* C23: in the frame loop every incident is recorded and notified at most
\* once, on the frame that confirmed it and never while tentative: every
\* confirmed incident has exactly one evidence record, made on the frame of
\* its confirmed_time with the incident in state confirmed, and the payload
\* notify built on that frame carries the snapshot and clip paths that
\* record_incident had just obtained.
C23_OnFirstConfirmation ==
    /\ \A i \in DOMAIN evidence : \A j \in DOMAIN evidence :
          evidence[i].ref = evidence[j].ref => i = j
    /\ \A i \in DOMAIN evidence :
          LET e == evidence[i]
          IN  /\ e.before.state = "confirmed"
              /\ e.before.confirmed_time = Some(Timestamp(e.frame))
              /\ e.before.last_notification_time = None
              /\ e.sent.payload.incident_id = e.before.incident_id
              /\ e.sent.payload.snapshot_path = Val(e.snapshot).path
              /\ e.sent.payload.video_clip_path = Val(e.clip).path
    /\ \A ref \in DOMAIN heap :
          heap[ref].state = "confirmed"
             <=> \E i \in DOMAIN evidence : evidence[i].ref = ref
    /\ \A ref \in DOMAIN heap :
          heap[ref].notification_count
             = Cardinality({i \in DOMAIN evidence : evidence[i].ref = ref})

\* an incident confirmed and handled on an earlier frame is returned again by
\* evaluate on this frame and is not handled again; its payload had both paths
C23_Witness ==
    \E i \in DOMAIN evidence :
        /\ evidence[i].frame < frame_id
        /\ \E k \in DOMAIN returned : returned[k] = evidence[i].ref
        /\ evidence[i].sent.payload.snapshot_path # None
        /\ evidence[i].sent.payload.video_clip_path # None
        /\ heap[evidence[i].ref].notification_count = 1

(***************************************************************************)
(* Properties of the start of main.                                        *)
(***************************************************************************)
\* C24: a frame is processed only after the rule document given to the
\* pipeline, JSON or YAML, has passed validation; with an invalid document
\* no frame is ever processed.
C24_ValidatedFirst ==
    frame_id > 0 => (io.op = "load_rule" /\ validate_rule_json(io.doc, fps))

(***************************************************************************)
(* Properties of the rule matcher.                                         *)
(***************************************************************************)
LatestOf(track) == track.detection_history[Len(track.detection_history)]

\* the centre of the box lies in the rectangle ZoneRect, bounds included
CentroidInZone(bbox) ==
    /\ 2 * ZoneRect[1][1] <= bbox[1] + bbox[3]
    /\ bbox[1] + bbox[3] <= 2 * ZoneRect[2][1]
    /\ 2 * ZoneRect[1][2] <= bbox[2] + bbox[4]
    /\ bbox[2] + bbox[4] <= 2 * ZoneRect[2][2]

\* one of the five rejections of the matcher applies to the track and rule
Rejected(track, rule) ==
    \/ track.state \notin {"confirmed", "helmeted", "helmetless", "unknown"}
    \/ track.detection_history = <<>>
    \/ LatestOf(track).confidence < rule.conditions.min_confidence
    \/ (rule.conditions.require_helmetless /\ track.state # "helmetless")
    \/ (rule.roi # None /\ Val(rule.roi).enabled /\ ~CentroidInZone(track.bbox))

\* C25: the matcher returns false whenever the track's state is not confirmed
\* or classification-derived, or it has no detection history, or its latest
\* confidence is below min_confidence, or the rule requires helmetless and the
\* state differs, or the ROI is enabled and the centroid is outside it; a
\* latest confidence equal to min_confidence is not a reason to reject.
C25_Rejections ==
    io.op = "_track_matches_rule" =>
        /\ Rejected(io.track, io.rule) => ~io.out
        /\ (/\ ~Rejected(io.track, io.rule)
            /\ LatestOf(io.track).confidence = io.rule.conditions.min_confidence
            /\ LatestOf(io.track).prompt_used = io.rule.prompt_positive) => io.out

\* a track at exactly the minimum confidence, inside the enabled ROI on its
\* boundary, helmetless as the rule requires: it matches
C25_Witness ==
    /\ io.op = "_track_matches_rule"
    /\ io.track.detection_history # <<>>
    /\ LatestOf(io.track).confidence = io.rule.conditions.min_confidence
    /\ io.rule.conditions.require_helmetless
    /\ io.rule.roi # None /\ Val(io.rule.roi).enabled
    /\ io.track.bbox = <<0, 0, 20, 10>>
    /\ io.out

\* C26: a track matches a rule only if the rule's prompt is present in the
\* prompt_used of the track's latest detection, whatever that string is.
C26_PromptPresent ==
    (io.op = "_track_matches_rule" /\ io.out) =>
        IsSubstring(io.rule.prompt_positive, LatestOf(io.track).prompt_used)

(***************************************************************************)
(* Properties of the incident's histories and timestamps.                  *)
(***************************************************************************)
\* C27: every evaluate call appends the track's latest confidence and frame
\* id to each incident it found eligible, whether the call created, promoted
\* or only updated it: the incident's two histories have equal length, are
\* one entry longer than before the call (none before its creation), and end
\* with the frame id of the call.
C27_HistoryEveryEligible ==
    [][frame_id' = frame_id + 1 =>
          \A k \in DOMAIN returned' :
             LET ref == returned'[k]
                 before == IF ref \in DOMAIN heap THEN Len(heap[ref].frame_ids) ELSE 0
             IN  /\ Len(heap'[ref].frame_ids) = Len(heap'[ref].confidence_scores)
                 /\ Len(heap'[ref].frame_ids) = before + 1
                 /\ heap'[ref].frame_ids[Len(heap'[ref].frame_ids)] = frame_id']_vars

\* C28: the timestamps of every incident are ordered: first_detected_time <=
\* confirmed_time when that is set, confirmed_time <= resolved_time and
\* first_detected_time <= resolved_time when resolved_time is set, whatever
\* timestamp resolve_incident was given; a confirmed incident has a
\* confirmed_time and a tentative one has none.
C28_OrderedTimestamps ==
    \A ref \in DOMAIN heap :
        LET inc == heap[ref]
        IN  /\ inc.confirmed_time # None
                  => inc.first_detected_time <= Val(inc.confirmed_time)
            /\ inc.resolved_time # None
                  => /\ inc.first_detected_time <= Val(inc.resolved_time)
                     /\ inc.confirmed_time # None
                           => Val(inc.confirmed_time) <= Val(inc.resolved_time)
            /\ inc.state = "confirmed" => inc.confirmed_time # None
            /\ inc.state = "tentative" => inc.confirmed_time = None

(***************************************************************************)
(* Properties of the ROI test.                                             *)
(***************************************************************************)
\* C29: for a rectangle given by two corners in either order, contains is
\* true exactly when the point lies in the box the corners span, bounds
\* included; with corners (0,0)-(100,100), (50,50) and (100,100) are inside
\* and (150,50) is outside.
C29_Rectangle ==
    (io.op = "contains_point" /\ io.roi.enabled /\ io.roi.roi_type = "rectangle") =>
        LET c1 == io.roi.points[1]
            c2 == io.roi.points[2]
            p == io.point
        IN  io.out <=> /\ Min2(c1[1], c2[1]) <= p[1] /\ p[1] <= Max2(c1[1], c2[1])
                       /\ Min2(c1[2], c2[2]) <= p[2] /\ p[2] <= Max2(c1[2], c2[2])

\* the ray from the point to the right crosses the edge a-b, counting the
\* edge's upper end and not its lower end
RayCrosses(p, a, b) ==
    /\ a[2] # b[2]
    /\ Min2(a[2], b[2]) < p[2] /\ p[2] <= Max2(a[2], b[2])
    /\ LeXinters(p, a, b)

\* the edges of the closed polygon, the last vertex joined to the first
CrossedEdges(p, polygon) ==
    {i \in DOMAIN polygon :
        RayCrosses(p, polygon[i], polygon[(i % Len(polygon)) + 1])}

\* C30: the polygon test reports a point inside exactly when the ray from it
\* crosses an odd number of edges of the closed polygon; it never reads an
\* intersection that was not computed for the edge at hand (so an edge with
\* equal y-coordinates is never divided by); for the square
\* (0,0),(10,0),(10,10),(0,10) it reports (5,5) inside and (15,5) outside.
C30_Polygon ==
    (io.op = "contains_point" /\ io.roi.enabled /\ io.roi.roi_type = "polygon") =>
        /\ ~io.stale
        /\ io.out <=> (Cardinality(CrossedEdges(io.point, io.roi.points)) % 2 = 1)
        /\ (io.roi.points = Square10 /\ io.point = <<5, 5>>) => io.out
        /\ (io.roi.points = Square10 /\ io.point = <<15, 5>>) => ~io.out

\* the square tested at a point level with its horizontal top edge
C30_Witness ==
    /\ io.op = "contains_point"
    /\ io.roi.enabled
    /\ io.roi.roi_type = "polygon"
    /\ io.roi.points = Square10
    /\ io.point = <<5, 10>>
    /\ ~io.stale

\* C31: a disabled ROI contains every point and every box; the matcher
\* accepts a track that passes its other checks, wherever its box is, when the
\* rule's ROI is absent or disabled; contains_bbox of a box is contains_point
\* of the box's centre.
C31_DisabledAndCentroid ==
    /\ (io.op \in {"contains_point", "contains_bbox"} /\ ~io.roi.enabled) => io.out
    /\ io.op = "contains_bbox" => (io.out <=> contains_point(io.roi, io.point))
    /\ (io.op = "_track_matches_rule"
            /\ (io.rule.roi = None \/ ~Val(io.rule.roi).enabled)) => io.out

\* a box whose centre is inside an enabled rectangle and whose corner is not
C31_Witness ==
    /\ io.op = "contains_bbox"
    /\ io.roi.enabled
    /\ io.roi.points = <<<<0, 0>>, <<100, 100>>>>
    /\ io.bbox = <<-1, 48, 1, 52>>
    /\ io.out

(***************************************************************************)
(* Properties of the classification enrichment.                            *)
(***************************************************************************)
\* the last SmoothFrames labels of a history
Recent(labels) ==
    IF Len(labels) <= SmoothFrames THEN labels ELSE LastOf(labels, SmoothFrames)

\* the label held by at least MinTemporalConfPct percent of the history
Smoothed(labels) ==
    IF \E l \in Range(labels) : 100 * Count(labels, l) >= MinTemporalConfPct * Len(labels)
    THEN CHOOSE l \in Range(labels) :
             100 * Count(labels, l) >= MinTemporalConfPct * Len(labels)
    ELSE "unknown"

HistoryOf(hist, tid) == IF tid \in DOMAIN hist THEN hist[tid] ELSE <<>>

\* C32: every evaluate call leaves, for each person track given to it that
\* is not lost, a history that is the last SmoothFrames labels of the old
\* history followed by one raw label, and a state that is the label holding
\* at least 60% of that history, or "unknown"; a lost track keeps its state
\* and its history.
C32_Smoothing ==
    [][io'.op = "evaluate" =>
          \A i \in DOMAIN io'.tracks_in :
              LET given == io'.tracks_in[i]
                  left == io'.tracks[i]
                  old == HistoryOf(helmet_history, given.track_id)
                  new == HistoryOf(helmet_history', given.track_id)
              IN  IF given.class_name = "person" /\ given.state # "lost"
                  THEN /\ \E raw \in {"helmeted", "helmetless"} :
                              new = Recent(Append(old, raw))
                       /\ Len(new) <= SmoothFrames
                       /\ left.state = Smoothed(new)
                  ELSE /\ new = old
                       /\ left = given]_vars

\* a full history that has dropped labels, mixed, with an accepted majority
C32_Witness ==
    /\ io.op = "evaluate"
    /\ frame_id > SmoothFrames
    /\ 1 \in DOMAIN helmet_history
    /\ helmet_history[1] = <<"helmetless", "helmeted", "helmetless", "helmeted", "helmeted">>
    /\ io.tracks # <<>>
    /\ io.tracks[1].state = "helmeted"

\* C38: a track handed to evaluate in the tracker's state "tentative"
\* matches no rule in that call and holds no dwell timer after it, whatever
\* its class.
C38_TentativeNeverMatches ==
    io.op = "evaluate" =>
        \A i \in DOMAIN io.tracks_in :
            io.tracks_in[i].state = "tentative" =>
                \A k \in Keys :
                    k[1] = io.tracks_in[i].track_id =>
                        k \notin matched /\ k \notin DOMAIN track_rule_timers

(***************************************************************************)
(* Properties of the dwell window and of resolution.                       *)
(***************************************************************************)
\* C33: after an evaluate call every pair that did not match in it, its
\* track absent from the list included, holds no timer and no frame list.
C33_AbsentResets ==
    last_call[1] = "evaluate" =>
        \A key \in Keys \ matched :
            key \notin DOMAIN track_rule_timers /\ key \notin DOMAIN track_rule_frames

\* C34: an incident becomes resolved, or has its resolved_time set, only in
\* a resolve_incident call that names it; an evaluate call creates no
\* resolved incident; resolve_incident on an unknown id changes nothing.
C34_NeverAutoResolved ==
    [][/\ \A i \in DOMAIN heap' :
              LET was == IF i \in DOMAIN heap
                         THEN heap[i]
                         ELSE [state |-> "none", resolved_time |-> None]
              IN  (\/ heap'[i].state = "resolved" /\ was.state # "resolved"
                   \/ heap'[i].resolved_time # was.resolved_time)
                  => /\ last_call'[1] = "resolve_incident"
                     /\ last_call'[2] = heap'[i].incident_id
       /\ (last_call'[1] = "resolve_incident" /\ last_call'[2] \notin Ids(incidents))
              => /\ heap' = heap
                 /\ UNCHANGED <<incidents, active_incidents_by_track,
                                track_rule_timers, track_rule_frames>>]_vars

\* a confirmed incident still open after an evaluate call in which its pair
\* did not match
C34_Witness ==
    /\ last_call[1] = "evaluate"
    /\ \E i \in DOMAIN heap :
          /\ heap[i].state = "confirmed"
          /\ heap[i].resolved_time = None
          /\ PairOf(heap[i]) \notin matched
          /\ Val(heap[i].confirmed_time) < Timestamp(frame_id)

\* C36: when an incident is promoted to confirmed, the window that promotes
\* it is the one the incident was created in (first_detected_time is the
\* start of the pair's running window, the pair's timer), and
\* confirmed_time - first_detected_time is at least dwell_seconds.
C36_PromotedInOwnWindow ==
    [][\A i \in DOMAIN heap :
          (heap[i].state = "tentative" /\ heap'[i].state = "confirmed") =>
              LET key == PairOf(heap[i])
              IN  /\ key \in DOMAIN track_rule_timers'
                  /\ track_rule_timers'[key] = heap[i].first_detected_time
                  /\ Val(heap'[i].confirmed_time) - heap[i].first_detected_time
                         >= RuleOf(key[2]).conditions.dwell_seconds]_vars

\* the incident differs from what it was at most in state and resolved_time
OnlyResolutionChanged(was, is) ==
    is = [was EXCEPT !.state = is.state, !.resolved_time = is.resolved_time]

\* C37: resolve_incident changes nothing but the state and the resolved_time
\* of the incident it names; and when a pair whose last evaluation returned
\* an incident has no open incident left and matches again, that evaluate
\* call creates a tentative incident for the pair whose first_detected_time
\* is the start of the window still running.
C37_ResolveKeepsWindow ==
    [][/\ last_call'[1] = "resolve_incident" =>
              /\ UNCHANGED <<incidents, active_incidents_by_track,
                             track_rule_timers, track_rule_frames>>
              /\ DOMAIN heap' = DOMAIN heap
              /\ \A i \in DOMAIN heap :
                     IF heap[i].incident_id = last_call'[2]
                        /\ i = incidents[Pos(incidents, last_call'[2])].ref
                     THEN OnlyResolutionChanged(heap[i], heap'[i])
                     ELSE heap'[i] = heap[i]
       /\ last_call'[1] = "evaluate" =>
              \A key \in Keys :
                  (/\ ReturnedFor(key)
                   /\ OpenFor(key) = {}
                   /\ key \in matched')
                  => \E j \in DOMAIN heap' \ DOMAIN heap :
                         /\ PairOf(heap'[j]) = key
                         /\ heap'[j].state = "tentative"
                         /\ heap'[j].first_detected_time = track_rule_timers[key]
                         /\ track_rule_timers'[key] = track_rule_timers[key]
                         /\ j \in Range(returned')]_vars

\* a pair with a resolved incident and, after it, a tentative one that
\* carries the start of the same window
C37_Witness ==
    /\ last_call[1] = "evaluate"
    /\ \E i, j \in DOMAIN heap :
          /\ i < j
          /\ PairOf(heap[i]) = PairOf(heap[j])
          /\ heap[i].state = "resolved"
          /\ heap[j].state = "tentative"
          /\ heap[j].first_detected_time = heap[i].first_detected_time
          /\ Val(heap[i].resolved_time) > heap[i].first_detected_time
          /\ track_rule_timers[PairOf(heap[j])] = heap[j].first_detected_time

(***************************************************************************)
(* Properties of the evidence taken in the frame loop.                     *)
(***************************************************************************)
\* C35: when an incident is confirmed on the current frame and the buffer's
\* capacity is at least 1, the buffer holds the entry whose timestamp is
\* confirmed_time, the incident has been handed to the recorder on this
\* frame, and the snapshot written for it, if one was written, is that entry.
C35_ConfirmationFrameBuffered ==
    \A ref \in DOMAIN heap :
        (/\ frame_id > 0
         /\ heap[ref].confirmed_time = Some(Timestamp(frame_id))
         /\ max_frames >= 1)
        => /\ \E e \in Range(buffer) :
                  e.timestamp = Timestamp(frame_id) /\ e.frame_id = frame_id
           /\ \E k \in DOMAIN evidence :
                  /\ evidence[k].ref = ref
                  /\ evidence[k].frame = frame_id
                  /\ evidence[k].trigger = Timestamp(frame_id)
                  /\ \A w \in Range(Val(evidence[k].snapshot).written) :
                         w \in Range(buffer) /\ w.frame_id = frame_id
                  /\ Len(heap[ref].snapshots) = Len(Val(evidence[k].snapshot).written)

\* an incident confirmed on a frame that is not the first of the buffer, with
\* its snapshot written
C35_Witness ==
    /\ Len(buffer) > 1
    /\ \E k \in DOMAIN evidence :
          /\ evidence[k].frame = frame_id
          /\ heap[evidence[k].ref].confirmed_time = Some(Timestamp(frame_id))
          /\ Val(evidence[k].snapshot).written # <<>>
          /\ Val(evidence[k].snapshot).written[1].timestamp = Timestamp(frame_id)

\* C39: an incident the loop has dispatched once is marked notified and in
\* the recorded set whatever the channels answered: also when a channel of
\* the rule answered false (a failed or suppressed send, an adapter not
\* loaded), the incident has a notification_count of 1 and a single dispatch
\* in the whole run.
C39_DispatchedOnce ==
    \A i \in DOMAIN evidence :
        LET e == evidence[i]
            incident == heap[e.ref]
        IN  /\ DOMAIN e.sent.results = Range(rules[1].actions.notify_channels)
            /\ incident.incident_id \in recorded_incidents
            /\ incident.notification_count = 1
            /\ incident.last_notification_time = Some(Timestamp(e.frame))
            /\ \A j \in DOMAIN evidence : evidence[j].ref = e.ref => j = i

\* an incident whose only dispatch failed on the rule's channel, returned
\* again by evaluate on a later frame and left alone
C39_Witness ==
    \E i \in DOMAIN evidence :
        /\ evidence[i].frame < frame_id
        /\ evidence[i].sent.results["slack"] = FALSE
        /\ "slack" \in notifiers
        /\ evidence[i].ref \in Range(returned)
        /\ heap[evidence[i].ref].notification_count = 1

====
